---------------------------- MODULE Spec2Model ----------------------------
(***************************************************************************)
(* A model of the dazzle-dash dashboards (food / WHO / flights).           *)
(*                                                                         *)
(* A pandas DataFrame is a record                                          *)
(*     [columns |-> sequence of column names,                              *)
(*      index   |-> sequence of row labels,                                *)
(*      data    |-> sequence of rows, each a sequence of cells]            *)
(* A column name, like every text, is a sequence of one-character strings, *)
(* so that the code's tests on names (startswith, isdigit, strip) are      *)
(* computed and not assumed.  A cell is a record [k, n, s]:                *)
(*     k = "num"  a number n            k = "nan"  a missing value (NaN)   *)
(*     k = "str"  the text s            k = "date" a timestamp of year n   *)
(*     k = "nat"  a missing timestamp (NaT)                                *)
(***************************************************************************)
EXTENDS Integers, Sequences, FiniteSets, TLC

VARIABLES
    csv_file,           \* FAO.csv: <<>> when absent, else <<frame>>
    parquet_file,       \* fao_clean.parquet: <<>> when absent, else <<frame>>
    load_pc,            \* the food module: "off" | "import" | "loaded" | "serving" (layout built)
    WIDE_DF,            \* app_food.WIDE_DF
    LONG_DF,            \* app_food.LONG_DF
    df_long_store,      \* dcc.Store "df-long-store"
    validated_filters,  \* dcc.Store "validated-filters"
    pending,            \* the outputs whose callback has been triggered and has not run yet
    figure,             \* the figure of each dcc.Graph, by component id
    flights_app,        \* which flights dashboard runs: "flights.dashboard" | "app_flights" | "dashboard"
    flights_df,         \* the frame df the flights callbacks close over
    airline_filter,     \* the value of the dropdown "airline_filter"
    date_range,         \* start_date and end_date of the picker "date_range"
    flights_out,        \* the outputs of the flights callback
    flights_error,      \* the exception of the last flights callback, "" when it returned
    who_app,            \* which WHO dashboard runs: "appWHO" | "who.app_who"
    who_df,             \* the frame df the WHO callbacks read
    indicator_dropdown, \* the value of the dropdown "indicator-dropdown"
    year_dropdown,      \* the value of the dropdown "year-dropdown"
    country_dropdown,   \* the value of the dropdown "country-dropdown"
    who_pending,        \* the WHO outputs whose callback has been triggered and has not run yet
    who_out,            \* the value of each WHO output, by component id
    console,            \* what the start of the process has printed, line by line
    process,            \* the process: "starting" | "running" | "raised" | "exited"
    files_read,         \* the files load_prepare_data has read: "parquet", "csv"
    food_controls,      \* the values of "area-dropdown", "item-dropdown" and "year-range"
    run_env,            \* what get_data_folder of run.py reads: argv, environ, stdin, folders
    data_folder         \* <<>>, or <<the path get_data_folder returned>>

vars == <<csv_file, parquet_file, load_pc, WIDE_DF, LONG_DF,
          df_long_store, validated_filters, pending, figure,
          flights_app, flights_df, airline_filter, date_range, flights_out, flights_error,
          who_app, who_df, indicator_dropdown, year_dropdown, country_dropdown,
          who_pending, who_out, console, process, files_read, food_controls,
          run_env, data_folder>>

folderVars == <<run_env, data_folder>>
loadVars == <<csv_file, parquet_file, load_pc, WIDE_DF, LONG_DF, console, process, files_read,
              folderVars>>
foodVars == <<df_long_store, validated_filters, pending, figure, food_controls>>
flightsVars == <<flights_app, flights_df, airline_filter, date_range, flights_out, flights_error>>
whoVars == <<who_app, who_df, indicator_dropdown, year_dropdown, country_dropdown,
             who_pending, who_out>>

-----------------------------------------------------------------------------
(* Bounds of the model *)

\* number of rows of the raw FAO tables that the load is run on
MaxRawRows == 2

\* number of countries and of products of the large ranking tables; it is
\* more than any top-N of the food dashboard, so that the cut-off happens
NGroups == 11

\* number of airlines and of airports of the large flights tables, more than
\* the 15 airlines and the 12 airports that are shown
NFlights == 16

-----------------------------------------------------------------------------
(* Cells and texts *)

Num(n) == [k |-> "num", n |-> n, s |-> <<>>]
NaN == [k |-> "nan", n |-> 0, s |-> <<>>]
Str(s) == [k |-> "str", n |-> 0, s |-> s]
Date(y) == [k |-> "date", n |-> y, s |-> <<>>]
NaT == [k |-> "nat", n |-> 0, s |-> <<>>]

\* pandas isna / notna
isna(c) == c.k \in {"nan", "nat"}

Digits == {"0", "1", "2", "3", "4", "5", "6", "7", "8", "9"}

DigitVal(d) ==
    CASE d = "0" -> 0 [] d = "1" -> 1 [] d = "2" -> 2 [] d = "3" -> 3
      [] d = "4" -> 4 [] d = "5" -> 5 [] d = "6" -> 6 [] d = "7" -> 7
      [] d = "8" -> 8 [] d = "9" -> 9

\* str.isdigit(): non-empty and every character a digit
isdigit(s) == Len(s) > 0 /\ \A i \in 1..Len(s) : s[i] \in Digits

RECURSIVE IntOfDigits(_)
IntOfDigits(s) ==
    IF s = <<>> THEN 0
    ELSE 10 * IntOfDigits(SubSeq(s, 1, Len(s) - 1)) + DigitVal(s[Len(s)])

\* str.strip(): leading and trailing blanks removed
RECURSIVE strip(_)
strip(s) ==
    IF s = <<>> THEN s
    ELSE IF Head(s) = " " THEN strip(Tail(s))
    ELSE IF s[Len(s)] = " " THEN strip(SubSeq(s, 1, Len(s) - 1))
    ELSE s

\* the column names the code names
Area == <<"A", "r", "e", "a">>
Item == <<"I", "t", "e", "m">>
Country == <<"C", "o", "u", "n", "t", "r", "y">>
Product == <<"P", "r", "o", "d", "u", "c", "t">>
Unit == <<"U", "n", "i", "t">>
Year == <<"Y", "e", "a", "r">>
Value == <<"V", "a", "l", "u", "e">>

-----------------------------------------------------------------------------
(* Sequences *)

Range(s) == {s[i] : i \in 1..Len(s)}

RECURSIVE SumSeq(_)
SumSeq(s) == IF s = <<>> THEN 0 ELSE Head(s) + SumSeq(Tail(s))

RECURSIVE Flatten(_)
Flatten(ss) == IF ss = <<>> THEN <<>> ELSE Head(ss) \o Flatten(Tail(ss))

\* the numbers of S in ascending order
RECURSIVE SortedInts(_)
SortedInts(S) ==
    IF S = {} THEN <<>>
    ELSE LET m == CHOOSE x \in S : \A y \in S : x <= y
         IN  <<m>> \o SortedInts(S \ {m})

\* the positions of s whose element satisfies Test, ascending
Positions(s, Test(_)) ==
    LET RECURSIVE pos(_)
        pos(i) == IF i > Len(s) THEN <<>>
                  ELSE IF Test(s[i]) THEN <<i>> \o pos(i + 1) ELSE pos(i + 1)
    IN  pos(1)

\* the first of a set of row numbers
MinOfRows(S) == CHOOSE x \in S : \A y \in S : x <= y

-----------------------------------------------------------------------------
(* DataFrames *)

EmptyFrame == [columns |-> <<>>, index |-> <<>>, data |-> <<>>]

\* pd.DataFrame(columns=cols): the columns and no row
FrameOfColumns(cols) == [columns |-> cols, index |-> <<>>, data |-> <<>>]

\* a frame with a fresh RangeIndex 0..n-1
RangeIndex(n) == [i \in 1..n |-> i - 1]

\* df.empty
empty(df) == Len(df.data) = 0 \/ Len(df.columns) = 0

\* "c in df.columns"
HasCol(df, c) == c \in Range(df.columns)

\* position of the (first) column named c
ColPos(df, c) == CHOOSE i \in 1..Len(df.columns) :
    df.columns[i] = c /\ \A j \in 1..(i - 1) : df.columns[j] # c

\* df[c]: the cells of column c, in row order
Col(df, c) == [r \in 1..Len(df.data) |-> df.data[r][ColPos(df, c)]]

\* df.loc[mask]: the rows whose position satisfies Keep, labels kept
Loc(df, Keep(_)) ==
    LET ps == Positions(RangeIndex(Len(df.data)), LAMBDA i : Keep(i + 1))
    IN  [df EXCEPT !.index = [i \in 1..Len(ps) |-> df.index[ps[i]]],
                   !.data = [i \in 1..Len(ps) |-> df.data[ps[i]]]]

-----------------------------------------------------------------------------
(* app_food.py: load_prepare_data and light_clean *)

\* pd.to_numeric(x, errors="coerce") on one cell
to_numeric(c) ==
    CASE c.k = "num" -> c
      [] c.k = "str" -> IF isdigit(strip(c.s)) THEN Num(IntOfDigits(strip(c.s))) ELSE NaN
      [] OTHER -> NaN

\* a parse that takes any run of digits for a year
to_datetime_Y_AnyDigits(s) == IF isdigit(s) THEN Date(IntOfDigits(s)) ELSE NaT

\* pd.to_datetime(x.astype(str), format="%Y", errors="coerce") on one text:
\* %Y is exactly four digits, and the year must be one a Timestamp can hold
to_datetime_Y(s) ==
    IF isdigit(s) /\ Len(s) = 4 /\ IntOfDigits(s) >= 1678 /\ IntOfDigits(s) <= 2262
    THEN Date(IntOfDigits(s)) ELSE NaT

\* select_dtypes(include="object"): a column read from CSV is an object column
\* when some cell of it is a text
IsObjectCol(df, j) == \E r \in 1..Len(df.data) : df.data[r][j].k = "str"

DigitChar(d) ==
    CASE d = 0 -> "0" [] d = 1 -> "1" [] d = 2 -> "2" [] d = 3 -> "3"
      [] d = 4 -> "4" [] d = 5 -> "5" [] d = 6 -> "6" [] d = 7 -> "7"
      [] d = 8 -> "8" [] d = 9 -> "9"

RECURSIVE DigitsOfNat(_)
DigitsOfNat(n) ==
    IF n < 10 THEN <<DigitChar(n)>> ELSE DigitsOfNat(n \div 10) \o <<DigitChar(n % 10)>>

\* astype(str) on one cell of an object column: a missing value becomes "nan"
astype_str(c) ==
    CASE c.k = "str" -> c.s
      [] c.k = "num" -> IF c.n < 0 THEN <<"-">> \o DigitsOfNat(-c.n) ELSE DigitsOfNat(c.n)
      [] OTHER -> <<"n", "a", "n">>

\* .str.replace("tonnes", "", case=False) on the texts the model uses
Tonnes == <<"t", "o", "n", "n", "e", "s">>
replace_tonnes(s) ==
    LET RECURSIVE rep(_)
        rep(t) == IF Len(t) < Len(Tonnes) THEN t
                  ELSE IF SubSeq(t, 1, Len(Tonnes)) = Tonnes
                       THEN rep(SubSeq(t, Len(Tonnes) + 1, Len(t)))
                       ELSE <<Head(t)>> \o rep(Tail(t))
    IN  rep(s)

light_clean(df) ==
    LET stripped ==
            [df EXCEPT !.data =
                [r \in 1..Len(df.data) |->
                    [j \in 1..Len(df.columns) |->
                        IF IsObjectCol(df, j)
                        THEN Str(strip(astype_str(df.data[r][j])))
                        ELSE df.data[r][j]]]]
    IN  IF HasCol(stripped, Unit)
        THEN [stripped EXCEPT !.data =
                [r \in 1..Len(stripped.data) |->
                    [j \in 1..Len(stripped.columns) |->
                        IF j = ColPos(stripped, Unit)
                        THEN Str(strip(replace_tonnes(astype_str(stripped.data[r][j]))))
                        ELSE stripped.data[r][j]]]]
        ELSE stripped

\* lines 43-49: 'Area' -> 'Country', 'Item' -> 'Product' unless already there
RenameCanonical(df) ==
    [df EXCEPT !.columns =
        [j \in 1..Len(df.columns) |->
            IF df.columns[j] = Area /\ ~HasCol(df, Country) THEN Country
            ELSE IF df.columns[j] = Item /\ ~HasCol(df, Product) THEN Product
            ELSE df.columns[j]]]

\* line 52: c.startswith("Y") and c[1:].isdigit()
IsPrefixedYear(c) == Len(c) > 0 /\ Head(c) = "Y" /\ isdigit(Tail(c))

\* lines 53-54: the prefixed year columns lose their 'Y'
StripYearPrefix(df) ==
    [df EXCEPT !.columns =
        [j \in 1..Len(df.columns) |->
            IF IsPrefixedYear(df.columns[j]) THEN Tail(df.columns[j]) ELSE df.columns[j]]]

\* line 55: the year columns are the all-digit names, in column order
YearCols(df) == Positions(df.columns, isdigit)

\* line 60: the identifier columns, in column order
IdVars(df) == Positions(df.columns, LAMBDA c : ~isdigit(c))

\* line 59: the year columns coerced to numbers
CoerceYearCols(df) ==
    [df EXCEPT !.data =
        [r \in 1..Len(df.data) |->
            [j \in 1..Len(df.columns) |->
                IF isdigit(df.columns[j]) THEN to_numeric(df.data[r][j])
                ELSE df.data[r][j]]]]

\* line 61: df.melt(id_vars, value_vars=year_cols, var_name="Year", value_name="Value");
\* one block of rows per year column, a fresh RangeIndex over the whole
melt(df) ==
    LET ids == IdVars(df)
        ycs == YearCols(df)
        R == Len(df.data)
        block(y) == [r \in 1..R |->
                        [i \in 1..Len(ids) |-> df.data[r][ids[i]]]
                            \o <<Str(df.columns[ycs[y]]), df.data[r][ycs[y]]>>]
    IN  [columns |-> [i \in 1..Len(ids) |-> df.columns[ids[i]]] \o <<Year, Value>>,
         index |-> RangeIndex(R * Len(ycs)),
         data |-> Flatten([y \in 1..Len(ycs) |-> block(y)])]

\* lines 63-64: Year parsed as a date, Value coerced to a number
ConvertLong(dl) ==
    LET n == Len(dl.columns)
    IN  [dl EXCEPT !.data =
            [r \in 1..Len(dl.data) |->
                [j \in 1..n |->
                    IF j = n - 1 THEN to_datetime_Y(astype_str(dl.data[r][j]))
                    ELSE IF j = n THEN to_numeric(dl.data[r][j])
                    ELSE dl.data[r][j]]]]

\* a load that keeps the rows without a Value
dropna_Value_KeepAll(dl) == dl

\* line 66: dropna(subset=["Value"]), the labels of the kept rows unchanged
dropna_Value(dl) == Loc(dl, LAMBDA r : ~isna(dl.data[r][Len(dl.columns)]))

\* lines 41-70: from the frame read to (df, df_long)
PrepareFrames(raw) ==
    LET df == StripYearPrefix(RenameCanonical(raw))
    IN  IF YearCols(df) # <<>>
        THEN LET num == CoerceYearCols(df)
                 dl == ConvertLong(melt(num))
             IN  <<num, IF ~empty(dl) THEN dropna_Value(dl)
                        ELSE FrameOfColumns(num.columns \o <<Year, Value>>)>>
        ELSE <<df, FrameOfColumns(df.columns \o <<Year, Value>>)>>

\* line 34: df.to_parquet(parquet_path, index=False) stores the columns and the
\* rows without their labels; line 25: pd.read_parquet numbers the rows from 0.
\* The cells of light_clean's result are numbers, missing numbers and texts,
\* which are stored as they are.
to_parquet_Partial(df) ==
    [columns |-> df.columns,
     index |-> RangeIndex(IF Len(df.data) = 0 THEN 0 ELSE Len(df.data) - 1),
     data |-> IF Len(df.data) = 0 THEN <<>> ELSE SubSeq(df.data, 1, Len(df.data) - 1)]
to_parquet(df) ==
    [columns |-> df.columns, index |-> RangeIndex(Len(df.data)), data |-> df.data]
read_parquet(file) == file[1]

\* lines 22-39: which file is read, and the cache written after cleaning the CSV.
\* The result is <<df, df_long, parquet file afterwards, files read>>; wrote
\* says whether df.to_parquet succeeded (its failure is swallowed, lines 33-36).
load_prepare_data_CsvFirst(parquet, csv, wrote) ==
    IF csv # <<>>
    THEN LET df == light_clean(csv[1])
         IN  PrepareFrames(df) \o <<IF wrote THEN <<to_parquet(df)>> ELSE parquet, {"csv"}>>
    ELSE IF parquet # <<>>
    THEN PrepareFrames(read_parquet(parquet)) \o <<parquet, {"parquet"}>>
    ELSE <<EmptyFrame, FrameOfColumns(<<Year, Value>>), parquet, {}>>
load_prepare_data(parquet, csv, wrote) ==
    IF parquet # <<>>
    THEN PrepareFrames(read_parquet(parquet)) \o <<parquet, {"parquet"}>>
    ELSE IF csv # <<>>
    THEN LET df == light_clean(csv[1])
         IN  PrepareFrames(df) \o <<IF wrote THEN <<to_parquet(df)>> ELSE parquet, {"csv"}>>
    ELSE <<EmptyFrame, FrameOfColumns(<<Year, Value>>), parquet, {}>>

-----------------------------------------------------------------------------
(* Series: the result of a groupby, a sequence of [key, val] in index order *)

\* the characters of the texts, in code-point order (Python compares texts by it)
Alphabet ==
    <<" ", "-", ".", "0", "1", "2", "3", "4", "5", "6", "7", "8", "9", ":",
      "A", "B", "C", "D", "E", "F", "G", "H", "I", "J", "K", "L", "M", "N", "O", "P",
      "Q", "R", "S", "T", "U", "V", "W", "X", "Y", "Z",
      "a", "b", "c", "d", "e", "f", "g", "h", "i", "j", "k", "l", "m", "n", "o", "p",
      "q", "r", "s", "t", "u", "v", "w", "x", "y", "z">>

CharCode == [c \in Range(Alphabet) |-> CHOOSE i \in 1..Len(Alphabet) : Alphabet[i] = c]

\* a < b for two texts
RECURSIVE TextLess(_, _)
TextLess(a, b) ==
    IF b = <<>> THEN FALSE
    ELSE IF a = <<>> THEN TRUE
    ELSE IF Head(a) = Head(b) THEN TextLess(Tail(a), Tail(b))
    ELSE CharCode[Head(a)] < CharCode[Head(b)]

\* sorted(S) for a set of texts
RECURSIVE SortedTexts(_)
SortedTexts(S) ==
    IF S = {} THEN <<>>
    ELSE LET m == CHOOSE x \in S : \A y \in S : x = y \/ TextLess(x, y)
         IN  <<m>> \o SortedTexts(S \ {m})

\* df.groupby(key)[Value].sum(): one entry per key present, the keys sorted
\* (groupby sorts its keys and leaves out the missing ones)
GroupSum(df, key) ==
    LET kp == ColPos(df, key)
        vp == ColPos(df, Value)
        keys == SortedTexts({df.data[r][kp].s : r \in {q \in 1..Len(df.data) : ~isna(df.data[q][kp])}})
        total(k) == SumSeq([i \in 1..Len(df.data) |->
                        IF df.data[i][kp].s = k /\ ~isna(df.data[i][kp]) /\ df.data[i][vp].k = "num"
                        THEN df.data[i][vp].n ELSE 0])
    IN  [i \in 1..Len(keys) |-> [key |-> keys[i], val |-> total(keys[i])]]

\* one entry more than asked
FirstN_OneMore(s, n) == SubSeq(s, 1, IF n + 1 < Len(s) THEN n + 1 ELSE Len(s))

\* the first n entries
FirstN(s, n) == SubSeq(s, 1, IF n < Len(s) THEN n ELSE Len(s))

\* a descending sort that puts the later of two equal entries first
RECURSIVE StableDesc_LastFirst(_)
StableDesc_LastFirst(s) ==
    IF s = <<>> THEN <<>>
    ELSE LET rest == StableDesc_LastFirst(SubSeq(s, 1, Len(s) - 1))
             x == s[Len(s)]
             k == Cardinality({i \in 1..Len(rest) : rest[i].val > x.val})
         IN  SubSeq(rest, 1, k) \o <<x>> \o SubSeq(rest, k + 1, Len(rest))

\* a stable sort by descending val (merge sort keeps equal entries in order)
RECURSIVE StableDesc(_)
StableDesc(s) ==
    IF s = <<>> THEN <<>>
    ELSE LET rest == StableDesc(SubSeq(s, 1, Len(s) - 1))
             x == s[Len(s)]
             k == Cardinality({i \in 1..Len(rest) : rest[i].val >= x.val})
         IN  SubSeq(rest, 1, k) \o <<x>> \o SubSeq(rest, k + 1, Len(rest))

\* sort_values(ascending=False) with the default quicksort, which is not
\* stable: every descending arrangement is a possible result
RECURSIVE DescOrders(_)
DescOrders(S) ==
    IF S = {} THEN {<<>>}
    ELSE LET top == {x \in S : \A y \in S : x.val >= y.val}
         IN  UNION {{<<x>> \o rest : rest \in DescOrders(S \ {x})} : x \in top}

\* Series.nlargest(n), keep="first".  With more than n entries the n largest
\* are taken by a stable merge sort (equal values in index order); with no
\* more entries than asked it is sort_values(ascending=False).head(n)
nlargest(s, n) ==
    IF n >= Len(s) THEN {FirstN(o, n) : o \in DescOrders(Range(s))}
    ELSE {FirstN(StableDesc(s), n)}

-----------------------------------------------------------------------------
(* app_food.py: the layout's stores and the chart handlers *)

TopAreasN == 10
TopItemsN == 10
TimeSeriesDefaultN == 5
PieDefaultN == 6
LayoutDefaultN == 5
PieMaxCols == 3

IsoTail == <<"-", "0", "1", "-", "0", "1", "T", "0", "0", ":", "0", "0", ":", "0", "0", ".", "0", "0", "0">>

\* long_df.to_json(date_format="iso", orient="split"): the dates become ISO
\* texts, the missing ones null
to_json(df) ==
    [df EXCEPT !.data =
        [r \in 1..Len(df.data) |->
            [j \in 1..Len(df.columns) |->
                CASE df.data[r][j].k = "date" -> Str(DigitsOfNat(df.data[r][j].n) \o IsoTail)
                  [] df.data[r][j].k = "nat" -> NaN
                  [] OTHER -> df.data[r][j]]]]

\* pd.to_datetime(x, errors="coerce") on one cell of the stored Year column
to_datetime(c) ==
    IF c.k = "str" /\ Len(c.s) = 4 + Len(IsoTail) /\ isdigit(SubSeq(c.s, 1, 4))
       /\ SubSeq(c.s, 5, Len(c.s)) = IsoTail
    THEN Date(IntOfDigits(SubSeq(c.s, 1, 4)))
    ELSE NaT

\* lines 289-296
df_from_store(df_json) ==
    IF HasCol(df_json, Year)
    THEN [df_json EXCEPT !.data =
            [r \in 1..Len(df_json.data) |->
                [j \in 1..Len(df_json.columns) |->
                    IF j = ColPos(df_json, Year) THEN to_datetime(df_json.data[r][j])
                    ELSE df_json.data[r][j]]]]
    ELSE df_json

\* a range that leaves its upper end out
between_Exclusive(c, start, end) == c.k = "date" /\ start <= c.n /\ c.n < end

\* dfl["Year"].dt.year.between(start, end): both ends included, a missing
\* year is in no range
between(c, start, end) == c.k = "date" /\ start <= c.n /\ c.n <= end

\* dfl[col].isin(values)
isin(c, values) == c.k = "str" /\ c.s \in Range(values)

\* figures
\* figures: kind "none" (nothing rendered yet), "empty" (go.Figure() with only a
\* title), "raise" (the handler raised), "bar", "line", "pie"
Figure(kind, title, labels, values, traces, grid) ==
    [kind |-> kind, title |-> title, labels |-> labels, values |-> values,
     traces |-> traces, grid |-> grid]
NoFigure == Figure("none", "", <<>>, <<>>, <<>>, <<>>)
Placeholder(t) == Figure("empty", t, <<>>, <<>>, <<>>, <<>>)
Raised(e) == Figure("raise", e, <<>>, <<>>, <<>>, <<>>)
BarOf(t, agg) ==
    Figure("bar", t, [i \in 1..Len(agg) |-> agg[i].key],
           [i \in 1..Len(agg) |-> agg[i].val], <<>>, <<>>)

\* the year filter of the four handlers (lines 330-333, 363-365, 395-397, 450-452)
FilterYears(dfl, vf) ==
    IF vf.year_range # <<>>
    THEN Loc(dfl, LAMBDA r : between(dfl.data[r][ColPos(dfl, Year)],
                                     vf.year_range[1], vf.year_range[2]))
    ELSE dfl

FilterIn(dfl, col, values) == Loc(dfl, LAMBDA r : isin(dfl.data[r][ColPos(dfl, col)], values))

\* lines 322-348: the possible figures of update_top_areas
update_top_areas(vf, df_json) ==
    LET dfl0 == df_from_store(df_json)
    IN  IF empty(dfl0) THEN {Placeholder("No data available")}
        ELSE LET dfl1 == IF HasCol(dfl0, Year) THEN FilterYears(dfl0, vf) ELSE dfl0
             IN  IF vf.products # <<>> /\ ~HasCol(dfl1, Product)
                 THEN {Raised("KeyError: 'Product'")}
                 ELSE LET dfl == IF vf.products # <<>>
                                 THEN FilterIn(dfl1, Product, vf.products)
                                 ELSE dfl1
                      IN  IF empty(dfl) \/ ~HasCol(dfl, Country) \/ ~HasCol(dfl, Value)
                          THEN {Placeholder("No data for selected filters")}
                          ELSE {BarOf("Top 10 Countries by Quantity Produced", agg) :
                                    agg \in nlargest(GroupSum(dfl, Country), TopAreasN)}

\* lines 356-379: the possible figures of update_top_items
update_top_items(vf, df_json) ==
    LET dfl0 == df_from_store(df_json)
    IN  IF empty(dfl0) THEN {Placeholder("No data available")}
        ELSE LET dfl1 == IF HasCol(dfl0, Year) THEN FilterYears(dfl0, vf) ELSE dfl0
             IN  IF vf.countries # <<>> /\ ~HasCol(dfl1, Country)
                 THEN {Raised("KeyError: 'Country'")}
                 ELSE LET dfl == IF vf.countries # <<>>
                                 THEN FilterIn(dfl1, Country, vf.countries)
                                 ELSE dfl1
                      IN  IF empty(dfl) \/ ~HasCol(dfl, Product) \/ ~HasCol(dfl, Value)
                          THEN {Placeholder("No data for selected filters")}
                          ELSE {BarOf("Top 10 Products by Quantity Produced", agg) :
                                    agg \in nlargest(GroupSum(dfl, Product), TopItemsN)}

\* the index of a ranking, as the list of countries to show
KeysOf(agg) == [i \in 1..Len(agg) |-> agg[i].key]

\* line 413: groupby([year, Country])[Value].sum().reset_index(): one row per
\* (year, country) present, sorted by year and then country
GroupYearCountry(dfl) ==
    LET yp == ColPos(dfl, Year)
        cp == ColPos(dfl, Country)
        vp == ColPos(dfl, Value)
        rows == {r \in 1..Len(dfl.data) : dfl.data[r][yp].k = "date" /\ ~isna(dfl.data[r][cp])}
        years == SortedInts({dfl.data[r][yp].n : r \in rows})
        ofYear(y) ==
            LET cs == SortedTexts({dfl.data[r][cp].s : r \in {q \in rows : dfl.data[q][yp].n = y}})
            IN  [i \in 1..Len(cs) |->
                    [Year |-> y, Country |-> cs[i],
                     Value |-> SumSeq([r \in 1..Len(dfl.data) |->
                                  IF r \in rows /\ dfl.data[r][yp].n = y /\ dfl.data[r][cp].s = cs[i]
                                     /\ dfl.data[r][vp].k = "num"
                                  THEN dfl.data[r][vp].n ELSE 0])]]
    IN  Flatten([i \in 1..Len(years) |-> ofYear(years[i])])

\* lines 387-434: the possible figures of update_time_series
update_time_series(vf, df_json) ==
    LET dfl0 == df_from_store(df_json)
    IN  IF empty(dfl0) \/ ~HasCol(dfl0, Year) THEN {Placeholder("No time-series data")}
        ELSE LET dfl1 == FilterYears(dfl0, vf)
             IN  IF vf.products # <<>> /\ ~HasCol(dfl1, Product)
                 THEN {Raised("KeyError: 'Product'")}
                 ELSE IF ~HasCol(dfl1, Country) THEN {Raised("KeyError: 'Country'")}
                 ELSE LET dfl2 == IF vf.products # <<>>
                                  THEN FilterIn(dfl1, Product, vf.products)
                                  ELSE dfl1
                          selections ==
                              IF vf.countries # <<>>
                              THEN {vf.countries}
                              ELSE {KeysOf(t) : t \in nlargest(GroupSum(dfl2, Country), TimeSeriesDefaultN)}
                      IN  { LET dfl == FilterIn(dfl2, Country, sel)
                            IN  IF empty(dfl) THEN Placeholder("No data for selected filters")
                                ELSE Figure("line", "Time series of Value for selected Countries",
                                            <<>>, <<>>, GroupYearCountry(dfl), <<>>)
                            : sel \in selections }

\* lines 486-500: the possible slices of one country's pie.  data is the
\* per-product totals above zero in one of the descending orders (sort_values
\* with the default quicksort); the products under 3% of the total go to "Other"
Other == <<"O", "t", "h", "e", "r">>

\* slices without the bucket of the small products
PieSlices_NoOther(data) ==
    LET total == SumSeq([i \in 1..Len(data) |-> data[i].val])
        big == Positions(data, LAMBDA d : d.val * 100 >= total * 3)
    IN  [labels |-> [i \in 1..Len(big) |-> data[big[i]].key],
         values |-> [i \in 1..Len(big) |-> data[big[i]].val]]

\* slices where a product at exactly 3% goes to the bucket
PieSlices_Above(data) ==
    LET total == SumSeq([i \in 1..Len(data) |-> data[i].val])
        big == Positions(data, LAMBDA d : d.val * 100 > total * 3)
        small_sum == SumSeq([i \in 1..Len(data) |->
                                IF data[i].val * 100 <= total * 3 THEN data[i].val ELSE 0])
    IN  [labels |-> [i \in 1..Len(big) |-> data[big[i]].key]
                        \o (IF small_sum > 0 THEN <<Other>> ELSE <<>>),
         values |-> [i \in 1..Len(big) |-> data[big[i]].val]
                        \o (IF small_sum > 0 THEN <<small_sum>> ELSE <<>>)]

PieSlices(data) ==
    LET total == SumSeq([i \in 1..Len(data) |-> data[i].val])
        big == Positions(data, LAMBDA d : d.val * 100 >= total * 3)
        small_sum == SumSeq([i \in 1..Len(data) |->
                                IF data[i].val * 100 < total * 3 THEN data[i].val ELSE 0])
    IN  [labels |-> [i \in 1..Len(big) |-> data[big[i]].key]
                        \o (IF small_sum > 0 THEN <<Other>> ELSE <<>>),
         values |-> [i \in 1..Len(big) |-> data[big[i]].val]
                        \o (IF small_sum > 0 THEN <<small_sum>> ELSE <<>>)]

\* lines 467-469: the grid of n_countries pies, at most 3 in a row
PieCols(n_countries) == IF PieMaxCols < n_countries THEN PieMaxCols ELSE n_countries
PieRows_Floor(n_countries, cols) == n_countries \div cols
PieRows(n_countries, cols) == (n_countries + cols - 1) \div cols

\* lines 479-480: the place of the pie of enumerate's index i
PieRow(i, cols) == i \div cols
PieCol(i, cols) == i % cols

\* lines 477-516: the possible lists of traces for the countries from position i
RECURSIVE PieTraces(_, _, _, _)
PieTraces(dfl, selected, cols, i) ==
    IF i > Len(selected) THEN {<<>>}
    ELSE LET subset == Loc(dfl, LAMBDA r : dfl.data[r][ColPos(dfl, Country)] = Str(selected[i]))
             sums == GroupSum(subset, Product)
             positive == {sums[k] : k \in {q \in 1..Len(sums) : sums[q].val > 0}}
             rests == PieTraces(dfl, selected, cols, i + 1)
         IN  IF positive = {} THEN rests
             ELSE { <<[name |-> selected[i],
                       row |-> PieRow(i - 1, cols), col |-> PieCol(i - 1, cols),
                       labels |-> PieSlices(data).labels,
                       values |-> PieSlices(data).values]>> \o rest
                    : data \in DescOrders(positive), rest \in rests }

\* lines 442-525: the possible figures of update_pie
update_pie(vf, df_json) ==
    LET dfl0 == df_from_store(df_json)
    IN  IF empty(dfl0) THEN {Placeholder("No data available")}
        ELSE IF vf.year_range # <<>> /\ ~HasCol(dfl0, Year)
        THEN {Raised("KeyError: 'Year'")}
        ELSE LET dfl == FilterYears(dfl0, vf)
             IN  IF vf.countries = <<>> /\ ~HasCol(dfl, Country)
                 THEN {Raised("KeyError: 'Country'")}
                 ELSE LET selections ==
                              IF vf.countries # <<>>
                              THEN {vf.countries}
                              ELSE {KeysOf(t) : t \in nlargest(GroupSum(dfl, Country), PieDefaultN)}
                      IN  UNION {
                            IF sel = <<>>
                            THEN {Placeholder("Select countries to display their production distribution")}
                            ELSE IF ~HasCol(dfl, Country) THEN {Raised("KeyError: 'Country'")}
                            ELSE IF ~HasCol(dfl, Product) THEN {Raised("KeyError: 'Product'")}
                            ELSE LET n_countries == Len(sel)
                                     cols == PieCols(n_countries)
                                     rows == PieRows(n_countries, cols)
                                 IN  { Figure("pie",
                                              "Production distribution by Product for selected Countries",
                                              <<>>, <<>>, traces, <<rows, cols>>)
                                       : traces \in PieTraces(dfl, sel, cols, 1) }
                            : sel \in selections }

NoFilters == [countries |-> <<>>, products |-> <<>>, year_range |-> <<>>]
NoFigures == [o \in {"bar-top-areas", "bar-top-items", "ts-top-areas", "pie-area"} |-> NoFigure]

\* lines 147-152: the layout's default countries, the 5 largest totals
DefaultCountries_OneLess(long_df) ==
    IF ~empty(long_df) /\ HasCol(long_df, Country)
    THEN {KeysOf(t) : t \in nlargest(GroupSum(long_df, Country), LayoutDefaultN - 1)}
    ELSE {<<>>}
DefaultCountries(long_df) ==
    IF ~empty(long_df) /\ HasCol(long_df, Country)
    THEN {KeysOf(t) : t \in nlargest(GroupSum(long_df, Country), LayoutDefaultN)}
    ELSE {<<>>}

\* lines 137-138: the options of the two dropdowns
CountryOptions(long_df) ==
    IF ~empty(long_df) /\ HasCol(long_df, Country)
    THEN SortedTexts({c.s : c \in {x \in Range(Col(long_df, Country)) : ~isna(x)}})
    ELSE <<>>
ProductOptions(long_df) ==
    IF ~empty(long_df) /\ HasCol(long_df, Product)
    THEN SortedTexts({c.s : c \in {x \in Range(Col(long_df, Product)) : ~isna(x)}})
    ELSE <<>>

\* lines 141-145: the ends of the year slider
DefaultMinYear == 1961
DefaultMaxYear == 2013
YearsOf(long_df) == {c.n : c \in {x \in Range(Col(long_df, Year)) : x.k = "date"}}
MinYear(long_df) ==
    IF ~empty(long_df) /\ HasCol(long_df, Year)
    THEN CHOOSE y \in YearsOf(long_df) : \A z \in YearsOf(long_df) : y <= z
    ELSE DefaultMinYear
MaxYear(long_df) ==
    IF ~empty(long_df) /\ HasCol(long_df, Year)
    THEN CHOOSE y \in YearsOf(long_df) : \A z \in YearsOf(long_df) : y >= z
    ELSE DefaultMaxYear

\* lines 155-159: initial_filters, for one of the possible default selections
InitialFilters(long_df, default_countries) ==
    [countries |-> default_countries, products |-> <<>>,
     year_range |-> <<MinYear(long_df), MaxYear(long_df)>>]

\* lines 184, 194 and 205: the values the three controls start with; a value
\* v is <<v>>, None is <<>>
InitialControls(long_df, default_countries) ==
    [countries |-> <<default_countries>>, products |-> << <<>> >>,
     year_range |-> << <<MinYear(long_df), MaxYear(long_df)>> >>]

\* lines 308-315: the new store of update_validated_filters; an input that is
\* None is <<>>, an input with a value v is <<v>>
update_validated_filters_NoRange(countries, products, year_range) ==
    [countries |-> IF countries # <<>> THEN countries[1] ELSE <<>>,
     products |-> IF products # <<>> THEN products[1] ELSE <<>>,
     year_range |-> <<>>]
update_validated_filters(countries, products, year_range) ==
    [countries |-> IF countries # <<>> THEN countries[1] ELSE <<>>,
     products |-> IF products # <<>> THEN products[1] ELSE <<>>,
     year_range |-> IF year_range # <<>> THEN year_range[1] ELSE <<>>]

-----------------------------------------------------------------------------
(* The flights dashboards: flights/dashboard/callbacks.py, flights/app_flights.py,
   dashboard/callbacks.py.  A mean is a record [num, den], the sum and the
   count of the numeric delays, and is missing when den = 0; a date is a day
   number, day 1 being a Monday, a week is seven days and a month thirty *)

AIRLINE_NAME == <<"A", "I", "R", "L", "I", "N", "E", "_", "N", "A", "M", "E">>
AIRLINE == <<"A", "I", "R", "L", "I", "N", "E">>
ORIGIN_NAME == <<"O", "R", "I", "G", "I", "N", "_", "N", "A", "M", "E">>
ORIGIN_AIRPORT == <<"O", "R", "I", "G", "I", "N", "_", "A", "I", "R", "P", "O", "R", "T">>
ARRIVAL_DELAY == <<"A", "R", "R", "I", "V", "A", "L", "_", "D", "E", "L", "A", "Y">>
DATE == <<"D", "A", "T", "E">>
DAY_NAME == <<"D", "A", "Y", "_", "N", "A", "M", "E">>
DAY_OF_WEEK == <<"D", "A", "Y", "_", "O", "F", "_", "W", "E", "E", "K">>
AIR_SYSTEM_DELAY == <<"A", "I", "R", "_", "S", "Y", "S", "T", "E", "M", "_", "D", "E", "L", "A", "Y">>
SECURITY_DELAY == <<"S", "E", "C", "U", "R", "I", "T", "Y", "_", "D", "E", "L", "A", "Y">>
AIRLINE_DELAY == <<"A", "I", "R", "L", "I", "N", "E", "_", "D", "E", "L", "A", "Y">>
LATE_AIRCRAFT_DELAY ==
    <<"L", "A", "T", "E", "_", "A", "I", "R", "C", "R", "A", "F", "T", "_", "D", "E", "L", "A", "Y">>
WEATHER_DELAY == <<"W", "E", "A", "T", "H", "E", "R", "_", "D", "E", "L", "A", "Y">>

\* callbacks.py line 7
DAY_ORDER_EN ==
    << <<"M", "o", "n", "d", "a", "y">>, <<"T", "u", "e", "s", "d", "a", "y">>,
       <<"W", "e", "d", "n", "e", "s", "d", "a", "y">>, <<"T", "h", "u", "r", "s", "d", "a", "y">>,
       <<"F", "r", "i", "d", "a", "y">>, <<"S", "a", "t", "u", "r", "d", "a", "y">>,
       <<"S", "u", "n", "d", "a", "y">> >>

\* dashboard/callbacks.py line 36
order ==
    << <<"L", "u", "n", "d", "i">>, <<"M", "a", "r", "d", "i">>,
       <<"M", "e", "r", "c", "r", "e", "d", "i">>, <<"J", "e", "u", "d", "i">>,
       <<"V", "e", "n", "d", "r", "e", "d", "i">>, <<"S", "a", "m", "e", "d", "i">>,
       <<"D", "i", "m", "a", "n", "c", "h", "e">> >>

DaysInWeek == 7
DaysInMonth == 30

\* Series.dt.day_name() of a timestamp; the week and the month it falls in
\* (resample("W"), resample("ME"))
day_name(n) == DAY_ORDER_EN[((n - 1) % DaysInWeek) + 1]
WeekOf(n) == (n - 1) \div DaysInWeek
MonthOf(n) == (n - 1) \div DaysInMonth

TopAirlinesN == 15
TopAirportsN == 12

Cell(df, r, col) == df.data[r][ColPos(df, col)]

\* callbacks.py lines 20-26, app_flights.py lines 13-17: DATE parsed as a
\* timestamp (a day number here), ARRIVAL_DELAY coerced to a number
to_types(df) ==
    [df EXCEPT !.data =
        [r \in 1..Len(df.data) |->
            [j \in 1..Len(df.columns) |->
                IF df.columns[j] = DATE
                THEN (IF df.data[r][j].k = "date" THEN df.data[r][j] ELSE NaT)
                ELSE IF df.columns[j] = ARRIVAL_DELAY THEN to_numeric(df.data[r][j])
                ELSE df.data[r][j]]]]

\* callbacks.py lines 12-15, app_flights.py lines 19-22
DAY_FR_TO_EN ==
    [fr \in {<<"L", "u", "n", "d", "i">>, <<"M", "a", "r", "d", "i">>,
             <<"M", "e", "r", "c", "r", "e", "d", "i">>, <<"J", "e", "u", "d", "i">>,
             <<"V", "e", "n", "d", "r", "e", "d", "i">>, <<"S", "a", "m", "e", "d", "i">>,
             <<"D", "i", "m", "a", "n", "c", "h", "e">>} |->
        CASE fr[1] = "L" -> DAY_ORDER_EN[1]
          [] fr[1] = "M" /\ fr[2] = "a" -> DAY_ORDER_EN[2]
          [] fr[1] = "M" /\ fr[2] = "e" -> DAY_ORDER_EN[3]
          [] fr[1] = "J" -> DAY_ORDER_EN[4]
          [] fr[1] = "V" -> DAY_ORDER_EN[5]
          [] fr[1] = "S" -> DAY_ORDER_EN[6]
          [] fr[1] = "D" -> DAY_ORDER_EN[7]]

\* callbacks.py lines 29-31, app_flights.py lines 24-25: the day named by a
\* cell of DAY_OF_WEEK.  DAY_FR_TO_EN.get(str(x).strip(), x) gives the English
\* name of a French name and leaves any other value as it is; a value that is
\* not one of DAY_ORDER_EN is then missing
DayOf(x) ==
    LET key == strip(astype_str(x))
        named == IF key \in DOMAIN DAY_FR_TO_EN THEN Str(DAY_FR_TO_EN[key]) ELSE x
    IN  IF named.k = "str" /\ named.s \in Range(DAY_ORDER_EN) THEN named ELSE NaN

\* d[name] = values: the column is replaced where it is, or added as the last
SetCol(d, name, values) ==
    IF HasCol(d, name)
    THEN [d EXCEPT !.data = [r \in 1..Len(d.data) |->
                               [d.data[r] EXCEPT ![ColPos(d, name)] = values[r]]]]
    ELSE [columns |-> d.columns \o <<name>>,
          index |-> d.index,
          data |-> [r \in 1..Len(d.data) |-> d.data[r] \o <<values[r]>>]]

\* callbacks.py lines 17-36, app_flights.py lines 11-28: the types, then the
\* column DAY_NAME from DAY_OF_WEEK, or else from DATE
preprocess(df) ==
    LET d == to_types(df)
    IN  IF HasCol(d, DAY_OF_WEEK)
        THEN SetCol(d, DAY_NAME, [r \in 1..Len(d.data) |-> DayOf(Cell(d, r, DAY_OF_WEEK))])
        ELSE IF HasCol(d, DATE)
        THEN SetCol(d, DAY_NAME, [r \in 1..Len(d.data) |->
                                    IF Cell(d, r, DATE).k = "date"
                                    THEN Str(day_name(Cell(d, r, DATE).n))
                                    ELSE NaN])
        ELSE d

\* df.groupby(key)[val].mean(): one entry per key present, the keys sorted
GroupMean(df, key, val) ==
    LET kp == ColPos(df, key)
        vp == ColPos(df, val)
        keys == SortedTexts({df.data[r][kp].s : r \in {q \in 1..Len(df.data) : ~isna(df.data[q][kp])}})
        nums(k) == {r \in 1..Len(df.data) : /\ ~isna(df.data[r][kp])
                                            /\ df.data[r][kp].s = k
                                            /\ df.data[r][vp].k = "num"}
    IN  [i \in 1..Len(keys) |->
            [key |-> keys[i],
             num |-> SumSeq([r \in 1..Len(df.data) |->
                                IF r \in nums(keys[i]) THEN df.data[r][vp].n ELSE 0]),
             den |-> Cardinality(nums(keys[i]))]]

\* x >= y for two means that are not missing
MeanGE(x, y) == x.num * y.den >= y.num * x.den

RECURSIVE MeanDescOrders(_)
MeanDescOrders(S) ==
    IF S = {} THEN {<<>>}
    ELSE LET top == {x \in S : \A y \in S : MeanGE(x, y)}
         IN  UNION {{<<x>> \o rest : rest \in MeanDescOrders(S \ {x})} : x \in top}

\* the means in ascending order
RECURSIVE MeanAscOrders(_)
MeanAscOrders(S) ==
    IF S = {} THEN {<<>>}
    ELSE LET low == {x \in S : \A y \in S : MeanGE(y, x)}
         IN  UNION {{<<x>> \o rest : rest \in MeanAscOrders(S \ {x})} : x \in low}
sort_values_asc(s) ==
    LET nans == SelectSeq(s, LAMBDA x : x.den = 0)
    IN  {o \o nans : o \in MeanAscOrders({x \in Range(s) : x.den > 0})}

\* Series.sort_values(ascending=False) of means: the default quicksort is not
\* stable, so the means come in any descending arrangement; the missing means
\* come last, in index order
sort_values_desc(s) ==
    LET nans == SelectSeq(s, LAMBDA x : x.den = 0)
    IN  {o \o nans : o \in MeanDescOrders({x \in Range(s) : x.den > 0})}

head(s, n) == FirstN(s, n)

MeanBar(t, grouped) ==
    Figure("bar", t, [i \in 1..Len(grouped) |-> grouped[i].key],
           [i \in 1..Len(grouped) |-> [num |-> grouped[i].num, den |-> grouped[i].den]],
           <<>>, <<>>)

dropna(df, cols) == Loc(df, LAMBDA r : \A c \in cols : ~isna(Cell(df, r, c)))

\* the mean delay of each label of labels, in that order (reindex): a label
\* without row has no mean
MeansBy(df, key, labels) ==
    LET nums(k) == {r \in 1..Len(df.data) : /\ Cell(df, r, key) = Str(k)
                                            /\ Cell(df, r, ARRIVAL_DELAY).k = "num"}
    IN  [i \in 1..Len(labels) |->
            [key |-> labels[i],
             num |-> SumSeq([r \in 1..Len(df.data) |->
                                IF r \in nums(labels[i]) THEN Cell(df, r, ARRIVAL_DELAY).n ELSE 0]),
             den |-> Cardinality(nums(labels[i]))]]

\* flights/dashboard/callbacks.py lines 38-49: the seven days, in their order
make_day_fig(df) ==
    IF ~HasCol(df, DAY_NAME) THEN {Raised("KeyError: ['DAY_NAME']")}
    ELSE IF ~HasCol(df, ARRIVAL_DELAY) THEN {Raised("KeyError: ['ARRIVAL_DELAY']")}
    ELSE LET tmp == dropna(df, {DAY_NAME, ARRIVAL_DELAY})
         IN  IF empty(tmp) THEN {Placeholder("Aucune donnee")}
             ELSE {MeanBar("Retard moyen par jour", MeansBy(tmp, DAY_NAME, DAY_ORDER_EN))}

\* app_flights.py lines 108-113.  groupby lists the categories of a categorical
\* column in their order, and the values of a column of texts sorted; DAY_NAME
\* is categorical when preprocess made it from DAY_OF_WEEK (line 25) and a
\* column of texts when it made it from DATE (line 27)
app_flights_make_day_fig(df) ==
    IF ~HasCol(df, DAY_NAME) THEN {Raised("KeyError: ['DAY_NAME']")}
    ELSE IF ~HasCol(df, ARRIVAL_DELAY) THEN {Raised("KeyError: ['ARRIVAL_DELAY']")}
    ELSE LET tmp == dropna(df, {DAY_NAME, ARRIVAL_DELAY})
         IN  IF empty(tmp) THEN {Placeholder("Aucune donnee")}
             ELSE IF HasCol(df, DAY_OF_WEEK)
             THEN {MeanBar("Retard moyen par jour", MeansBy(tmp, DAY_NAME, DAY_ORDER_EN))}
             ELSE {MeanBar("Retard moyen par jour", GroupMean(tmp, DAY_NAME, ARRIVAL_DELAY))}

\* df.set_index("DATE")["ARRIVAL_DELAY"].resample(rule).mean(): one mean per
\* period from the first to the last period with a row, missing for a period
\* without numeric delay; Period is WeekOf or MonthOf
Resampled(df, Period(_)) ==
    LET dated == {r \in 1..Len(df.data) : Cell(df, r, DATE).k = "date"}
        periods == {Period(Cell(df, r, DATE).n) : r \in dated}
        first == CHOOSE a \in periods : \A b \in periods : a <= b
        last == CHOOSE a \in periods : \A b \in periods : a >= b
        nums(q) == {r \in dated : /\ Period(Cell(df, r, DATE).n) = q
                                  /\ Cell(df, r, ARRIVAL_DELAY).k = "num"}
    IN  IF periods = {} THEN <<>>
        ELSE [i \in 1..(last - first + 1) |->
                [key |-> first + i - 1,
                 num |-> SumSeq([r \in 1..Len(df.data) |->
                                    IF r \in nums(first + i - 1)
                                    THEN Cell(df, r, ARRIVAL_DELAY).n ELSE 0]),
                 den |-> Cardinality(nums(first + i - 1))]]

MeanLine(t, means) ==
    Figure("line", t, [i \in 1..Len(means) |-> means[i].key],
           [i \in 1..Len(means) |-> [num |-> means[i].num, den |-> means[i].den]],
           <<>>, <<>>)

\* flights/dashboard/callbacks.py lines 63-71 and app_flights.py lines 119-123
make_ts_fig(df) ==
    IF ~HasCol(df, DATE) THEN {Placeholder("Pas de colonne DATE")}
    ELSE IF ~HasCol(df, ARRIVAL_DELAY) THEN {Raised("KeyError: 'ARRIVAL_DELAY'")}
    ELSE {MeanLine("Retard moyen hebdomadaire", Resampled(df, WeekOf))}

\* df[causes].mean(): the mean of each column of causes over all the rows
ColumnMeans(df, causes) ==
    [i \in 1..Len(causes) |->
        LET nums == {r \in 1..Len(df.data) : Cell(df, r, causes[i]).k = "num"}
        IN  [key |-> causes[i],
             num |-> SumSeq([r \in 1..Len(df.data) |->
                                IF r \in nums THEN Cell(df, r, causes[i]).n ELSE 0]),
             den |-> Cardinality(nums)]]

\* Series.sort_values(): any ascending arrangement, the missing means last
sort_values(s) ==
    LET nans == SelectSeq(s, LAMBDA x : x.den = 0)
    IN  {o \o nans : o \in MeanAscOrders({x \in Range(s) : x.den > 0})}

\* flights/dashboard/callbacks.py lines 73-85 and app_flights.py lines 124-129
make_causes_fig(df) ==
    LET all == <<AIR_SYSTEM_DELAY, SECURITY_DELAY, AIRLINE_DELAY, LATE_AIRCRAFT_DELAY,
                 WEATHER_DELAY>>
        causes == SelectSeq(all, LAMBDA c : HasCol(df, c))
    IN  IF causes = <<>> THEN {Placeholder("Causes non disponibles")}
        ELSE {MeanBar("Retard moyen par cause", means)
              : means \in sort_values(ColumnMeans(df, causes))}

\* flights/dashboard/callbacks.py lines 87-91 and app_flights.py lines 130-131:
\* the histogram of the numeric delays
make_dist_fig(df) ==
    IF ~HasCol(df, ARRIVAL_DELAY)
    THEN {Raised("ValueError: Value of 'x' is not the name of a column in 'data_frame'")}
    ELSE LET nums == Positions(Col(df, ARRIVAL_DELAY), LAMBDA c : c.k = "num")
         IN  {Figure("histogram", "Distribution des retards (min)", <<>>,
                     [i \in 1..Len(nums) |-> Cell(df, nums[i], ARRIVAL_DELAY).n], <<>>, <<>>)}

\* flights/dashboard/callbacks.py lines 51-61 and app_flights.py lines 114-118
make_airline_fig(df) ==
    LET name_col == IF HasCol(df, AIRLINE_NAME) THEN AIRLINE_NAME ELSE AIRLINE
    IN  IF ~HasCol(df, name_col) THEN {Raised("KeyError: 'AIRLINE'")}
        ELSE IF ~HasCol(df, ARRIVAL_DELAY) THEN {Raised("KeyError: 'ARRIVAL_DELAY'")}
        ELSE LET tmp == dropna(df, {name_col, ARRIVAL_DELAY})
             IN  { MeanBar("Top 15 compagnies (retard moyen)", head(g, TopAirlinesN))
                   : g \in sort_values_desc(GroupMean(tmp, name_col, ARRIVAL_DELAY)) }

\* flights/dashboard/callbacks.py lines 93-142; the labels are the full names
\* (customdata)
make_top_airports_fig(dframe, top_n) ==
    LET notna_any(c) == \E r \in 1..Len(dframe.data) : ~isna(Cell(dframe, r, c))
    IN  IF empty(dframe) \/ ~HasCol(dframe, ARRIVAL_DELAY)
        THEN {Placeholder("Top aeroports - pas de donnees")}
        ELSE IF ~(HasCol(dframe, ORIGIN_NAME) /\ notna_any(ORIGIN_NAME))
                /\ ~(HasCol(dframe, ORIGIN_AIRPORT) /\ notna_any(ORIGIN_AIRPORT))
        THEN {Placeholder("Top aeroports - colonnes origine manquantes")}
        ELSE LET name_col == IF HasCol(dframe, ORIGIN_NAME) /\ notna_any(ORIGIN_NAME)
                             THEN ORIGIN_NAME ELSE ORIGIN_AIRPORT
             IN  { IF g = <<>> THEN Placeholder("Top aeroports - aucune donnee")
                   ELSE MeanBar("Top 12 aeroports par retard moyen", head(g, top_n))
                   : g \in sort_values_desc(GroupMean(dframe, name_col, ARRIVAL_DELAY)) }

\* app_flights.py lines 132-136
app_flights_make_top_airports_fig(df, top_n) ==
    LET name_col == IF HasCol(df, ORIGIN_NAME) THEN ORIGIN_NAME ELSE ORIGIN_AIRPORT
    IN  IF ~HasCol(df, name_col) THEN {Raised("KeyError: 'ORIGIN_AIRPORT'")}
        ELSE IF ~HasCol(df, ARRIVAL_DELAY) THEN {Raised("KeyError: 'ARRIVAL_DELAY'")}
        ELSE LET tmp == dropna(df, {name_col, ARRIVAL_DELAY})
             IN  { MeanBar("Top 12 aeroports par retard moyen", head(g, top_n))
                   : g \in sort_values_desc(GroupMean(tmp, name_col, ARRIVAL_DELAY)) }

\* dashboard/callbacks.py lines 64-77
dashboard_make_airline_fig(dframe, top_n) ==
    IF empty(dframe) \/ ~HasCol(dframe, ARRIVAL_DELAY)
    THEN {Placeholder("Retard moyen par compagnie (donnees manquantes)")}
    ELSE IF ~HasCol(dframe, AIRLINE_NAME) /\ ~HasCol(dframe, AIRLINE)
    THEN {Placeholder("Retard moyen par compagnie (pas de colonne nom compagnie)")}
    ELSE LET name_col == IF HasCol(dframe, AIRLINE_NAME) THEN AIRLINE_NAME ELSE AIRLINE
         IN  { IF g = <<>> THEN Placeholder("Retard moyen par compagnie (aucune donnee)")
               ELSE MeanBar("Top 15 compagnies - retard moyen arrivee", head(g, top_n))
               : g \in sort_values_desc(GroupMean(dframe, name_col, ARRIVAL_DELAY)) }

\* dashboard/callbacks.py lines 39-50: what make_day_fig writes into the frame
\* it is given: the French day names when the frame has no usable DAY_NAME,
\* and the delays as numbers
day_writes(dframe) ==
    LET has_days == HasCol(dframe, DAY_NAME)
                    /\ \E r \in 1..Len(dframe.data) : ~isna(Cell(dframe, r, DAY_NAME))
        french(n) == order[((n - 1) % DaysInWeek) + 1]
        others == SelectSeq(dframe.columns, LAMBDA c : c # DAY_NAME)
        named == IF has_days THEN dframe
                 ELSE [columns |-> others \o <<DAY_NAME>>,
                       index |-> dframe.index,
                       data |-> [r \in 1..Len(dframe.data) |->
                                   [j \in 1..Len(others) |-> Cell(dframe, r, others[j])]
                                   \o <<IF Cell(dframe, r, DATE).k = "date"
                                        THEN Str(french(Cell(dframe, r, DATE).n))
                                        ELSE NaN>>]]
    IN  IF empty(dframe) \/ (~has_days /\ ~HasCol(dframe, DATE)) THEN dframe
        ELSE IF ~HasCol(dframe, ARRIVAL_DELAY) THEN named
        ELSE [named EXCEPT !.data =
                [r \in 1..Len(named.data) |->
                    [j \in 1..Len(named.columns) |->
                        IF named.columns[j] = ARRIVAL_DELAY THEN to_numeric(named.data[r][j])
                        ELSE named.data[r][j]]]]

\* dashboard/callbacks.py lines 35-61
dashboard_make_day_fig(dframe) ==
    LET has_days == HasCol(dframe, DAY_NAME)
                    /\ \E r \in 1..Len(dframe.data) : ~isna(Cell(dframe, r, DAY_NAME))
    IN  IF empty(dframe) THEN {Placeholder("Retard moyen par jour (aucune donnee)")}
        ELSE IF ~has_days /\ ~HasCol(dframe, DATE)
        THEN {Placeholder("Retard moyen par jour (pas de DATE ni DAY_NAME)")}
        ELSE IF ~HasCol(dframe, ARRIVAL_DELAY)
        THEN {Placeholder("Retard moyen par jour (colonne ARRIVAL_DELAY manquante)")}
        ELSE LET kept == dropna(day_writes(dframe), {DAY_NAME, ARRIVAL_DELAY})
                 grouped == MeansBy(kept, DAY_NAME, order)
             IN  IF empty(kept) THEN {Placeholder("Retard moyen par jour (aucun retard valide)")}
                 ELSE IF \A i \in 1..Len(grouped) : grouped[i].den = 0
                 THEN {Placeholder("Retard moyen par jour (aucune moyenne calculable)")}
                 ELSE {MeanBar("Retard moyen par jour de la semaine", grouped)}

\* dashboard/callbacks.py lines 80-87: the months with a mean
dashboard_make_ts_fig(dframe) ==
    IF empty(dframe) \/ ~HasCol(dframe, ARRIVAL_DELAY)
    THEN {Placeholder("Serie temporelle (donnees manquantes)")}
    ELSE IF ~HasCol(dframe, DATE) THEN {Raised("KeyError: 'DATE'")}
    ELSE LET ts == SelectSeq(Resampled(dframe, MonthOf), LAMBDA m : m.den > 0)
         IN  IF ts = <<>> THEN {Placeholder("Serie temporelle (aucune donnee)")}
             ELSE {MeanLine("Evolution du retard moyen", ts)}

\* the rows of the three filters: the airline, if one is chosen, and the two
\* ends of the period, if given (a missing date is on no side of a date)
FlightsMask_Exclusive(df, name_col, airline, start, end) ==
    Loc(df, LAMBDA r :
            /\ airline # <<>> => Cell(df, r, name_col) = Str(airline[1])
            /\ start # <<>> => Cell(df, r, DATE).k = "date" /\ Cell(df, r, DATE).n > start[1]
            /\ end # <<>> => Cell(df, r, DATE).k = "date" /\ Cell(df, r, DATE).n <= end[1])
FlightsMask(df, name_col, airline, start, end) ==
    Loc(df, LAMBDA r :
            /\ airline # <<>> => Cell(df, r, name_col) = Str(airline[1])
            /\ start # <<>> => Cell(df, r, DATE).k = "date" /\ Cell(df, r, DATE).n >= start[1]
            /\ end # <<>> => Cell(df, r, DATE).k = "date" /\ Cell(df, r, DATE).n <= end[1])

\* a KPI: a number in hundredths, or the text shown in its place
KpiNumber(n) == [text |-> "", n |-> n]
KpiText(t) == [text |-> t, n |-> 0]

\* round(x, 2) of a mean: the nearest hundredth, nan for a missing mean
round_2(m) ==
    IF m.den = 0 THEN KpiText("nan")
    ELSE KpiNumber((200 * m.num + m.den) \div (2 * m.den))

\* Series.mean() and Series.median() of the numeric delays
DelaysOf(df) ==
    LET nums == Positions(Col(df, ARRIVAL_DELAY), LAMBDA c : c.k = "num")
    IN  [i \in 1..Len(nums) |-> Cell(df, nums[i], ARRIVAL_DELAY).n]
mean(s) == [num |-> SumSeq(s), den |-> Len(s)]
Kth(s, k) ==
    CHOOSE v \in Range(s) : /\ Cardinality({i \in 1..Len(s) : s[i] < v}) < k
                            /\ Cardinality({i \in 1..Len(s) : s[i] <= v}) >= k
median(s) ==
    IF s = <<>> THEN [num |-> 0, den |-> 0]
    ELSE IF Len(s) % 2 = 1 THEN [num |-> Kth(s, (Len(s) + 1) \div 2), den |-> 1]
    ELSE [num |-> Kth(s, Len(s) \div 2) + Kth(s, Len(s) \div 2 + 1), den |-> 2]

\* the three KPIs: the number of flights, the mean delay and the median (the
\* share of late flights in dashboard/callbacks.py)
Kpis(total, avg, third) == [total |-> total, avg |-> avg, third |-> third]

\* flights/dashboard/callbacks.py lines 194-197 and app_flights.py lines 99-101
kpis(dff) ==
    Kpis(Len(dff.data),
         IF HasCol(dff, ARRIVAL_DELAY) THEN round_2(mean(DelaysOf(dff))) ELSE KpiText("NA"),
         IF HasCol(dff, ARRIVAL_DELAY) THEN round_2(median(DelaysOf(dff))) ELSE KpiText("NA"))

\* dashboard/callbacks.py lines 93-112; no table here has a column IS_LATE_ARR
dashboard_kpis(dff) ==
    Kpis(Len(dff.data),
         IF HasCol(dff, ARRIVAL_DELAY) /\ DelaysOf(dff) # <<>>
         THEN round_2(mean(DelaysOf(dff))) ELSE KpiText("N/A"),
         KpiText("N/A"))

\* the outputs of the callback: six figures (three in dashboard/callbacks.py)
\* and the KPIs
FlightsOutputs(day, air, ts, causes, dist, ports, k) ==
    [day_delay |-> day, airline_delay |-> air, time_series |-> ts, causes |-> causes,
     dist_delay |-> dist, top_airports |-> ports, kpis |-> k]
NoFlightsOutputs ==
    FlightsOutputs(NoFigure, NoFigure, NoFigure, NoFigure, NoFigure, NoFigure,
                   Kpis(0, KpiText(""), KpiText("")))

\* the callback's result: the outputs when it returns, else the exception
Returned(out) == [raised |-> "", out |-> out]
Failed(e) == [raised |-> e, out |-> NoFlightsOutputs]

RaisedIn(figs) == {f \in figs : f.kind = "raise"}

\* flights/dashboard/callbacks.py lines 167-205 (update) and app_flights.py
\* lines 90-153 (update_dashboard); they differ in the day figure and in the
\* airports figure.  The figures are built in the order of the outputs, and the
\* first builder that raises ends the callback
update(app, df, airline, start, end) ==
    LET name_col == IF HasCol(df, AIRLINE_NAME) THEN AIRLINE_NAME ELSE AIRLINE
    IN  IF airline # <<>> /\ ~HasCol(df, name_col) THEN {Failed("KeyError: 'AIRLINE'")}
        ELSE IF (start # <<>> \/ end # <<>>) /\ ~HasCol(df, DATE) THEN {Failed("KeyError: 'DATE'")}
        ELSE LET dff == FlightsMask(df, name_col, airline, start, end)
                 days == IF app = "app_flights" THEN app_flights_make_day_fig(dff)
                         ELSE make_day_fig(dff)
                 airs == make_airline_fig(dff)
                 tss == make_ts_fig(dff)
                 causes == make_causes_fig(dff)
                 dists == make_dist_fig(dff)
                 ports == IF app = "app_flights"
                          THEN app_flights_make_top_airports_fig(dff, TopAirportsN)
                          ELSE make_top_airports_fig(dff, TopAirportsN)
                 figs == <<days, airs, tss, causes, dists, ports>>
                 failing == {i \in 1..Len(figs) : RaisedIn(figs[i]) # {}}
             IN  IF failing # {}
                 THEN {Failed(f.title)
                       : f \in RaisedIn(figs[CHOOSE i \in failing : \A j \in failing : i <= j])}
                 ELSE {Returned(FlightsOutputs(d, a, t, c, h, p, kpis(dff)))
                       : d \in days, a \in airs, t \in tss, c \in causes, h \in dists, p \in ports}

\* dashboard/callbacks.py lines 18-128: three figures and the KPIs
dashboard_update(df, selected_airline, start_date, end_date) ==
    IF (start_date # <<>> \/ end_date # <<>>) /\ ~HasCol(df, DATE) THEN {Failed("KeyError: 'DATE'")}
    ELSE LET name_col == IF HasCol(df, AIRLINE_NAME) THEN AIRLINE_NAME ELSE AIRLINE
             dff == FlightsMask(df, name_col,
                                IF HasCol(df, name_col) THEN selected_airline ELSE <<>>,
                                start_date, end_date)
             days == dashboard_make_day_fig(dff)
             airs == dashboard_make_airline_fig(dff, TopAirlinesN)
             tss == dashboard_make_ts_fig(dff)
         IN  IF RaisedIn(tss) # {} THEN {Failed(f.title) : f \in RaisedIn(tss)}
             ELSE {Returned(FlightsOutputs(d, a, t, NoFigure, NoFigure, NoFigure,
                                           dashboard_kpis(dff)))
                   : d \in days, a \in airs, t \in tss}

\* A frame object: which object it is ("df" is the frame the callbacks close
\* over) and its content.  DataFrame.copy() and a selection by a mask give a
\* new object
copy_Alias(o) == o
copy(o) == [obj |-> "dff", frame |-> o.frame]
Selection(o, frame) == [obj |-> "dff", frame |-> frame]

\* the frame df after a run of the callback.  dashboard/callbacks.py lines
\* 19-33 and 90: make_day_fig writes into its argument, which is the copy of
\* df or a selection of the copy; flights/dashboard/callbacks.py lines 168-174
\* and app_flights.py lines 91-97: the builders write into no frame
shared_after(app, df, airline, start, end) ==
    IF app # "dashboard" THEN df
    ELSE IF (start # <<>> \/ end # <<>>) /\ ~HasCol(df, DATE) THEN df
    ELSE LET name_col == IF HasCol(df, AIRLINE_NAME) THEN AIRLINE_NAME ELSE AIRLINE
             filters == IF HasCol(df, name_col) THEN airline ELSE <<>>
             dff == copy([obj |-> "df", frame |-> df])
             working == IF filters # <<>> \/ start # <<>> \/ end # <<>>
                        THEN Selection(dff, FlightsMask(dff.frame, name_col, filters, start, end))
                        ELSE dff
         IN  IF working.obj = "df" THEN day_writes(working.frame) ELSE df

\* the options of the airline dropdown (dashboard/app.py lines 24-29,
\* app_flights.py line 31) and the ends of the period (lines 31-36, 32-33)
unique_airlines(app, df) ==
    LET col == IF HasCol(df, AIRLINE_NAME) THEN AIRLINE_NAME
               ELSE IF app # "app_flights" /\ HasCol(df, AIRLINE) THEN AIRLINE ELSE <<>>
    IN  IF col = <<>> THEN <<>>
        ELSE SortedTexts({c.s : c \in {x \in Range(Col(df, col)) : ~isna(x)}})
DatesOf(df) ==
    IF HasCol(df, DATE) THEN {c.n : c \in {x \in Range(Col(df, DATE)) : x.k = "date"}} ELSE {}
min_date(df) ==
    IF DatesOf(df) = {} THEN <<>> ELSE <<CHOOSE d \in DatesOf(df) : \A e \in DatesOf(df) : d <= e>>
max_date(df) ==
    IF DatesOf(df) = {} THEN <<>> ELSE <<CHOOSE d \in DatesOf(df) : \A e \in DatesOf(df) : d >= e>>

-----------------------------------------------------------------------------
(* The WHO dashboards: appWHO.py and who/app_who.py.  A mean is a record
   [num, den]; a correlation is a record [c, vv] that stands for c / sqrt(vv),
   with nan set when it is missing *)

c_country == <<"c", "o", "u", "n", "t", "r", "y">>
c_year == <<"y", "e", "a", "r">>
c_life_expectancy == <<"l", "i", "f", "e", "_", "e", "x", "p", "e", "c", "t", "a", "n", "c", "y">>
c_IDH == <<"I", "D", "H">>
c_GDP == <<"G", "D", "P">>
c_population == <<"p", "o", "p", "u", "l", "a", "t", "i", "o", "n">>
World == <<"W", "o", "r", "l", "d">>

BASE_year == 2000
AggregateYear == 1999

\* appWHO.py lines 31-32, app_who.py lines 31-32: life_expectancy coerced to a
\* number (year is a whole number in every table read)
who_load_data(csv) ==
    [csv EXCEPT !.data =
        [r \in 1..Len(csv.data) |->
            [j \in 1..Len(csv.columns) |->
                IF csv.columns[j] = c_life_expectancy THEN to_numeric(csv.data[r][j])
                ELSE csv.data[r][j]]]]

\* lines 38-40: the years offered, with 1999 put first when the data lacks it
who_years(df) ==
    LET ys == SortedInts({c.n : c \in Range(Col(df, c_year))})
    IN  IF AggregateYear \in Range(ys) THEN ys ELSE <<AggregateYear>> \o ys

\* lines 43-44: the countries offered, after 'World'
who_countries(df) == <<World>> \o SortedTexts({c.s : c \in Range(Col(df, c_country))})

\* df.select_dtypes(include=['number']).columns, as positions: a column read
\* with a text in it is an object column
numeric_cols(df) ==
    Positions([j \in 1..Len(df.columns) |-> j],
              LAMBDA j : \A r \in 1..Len(df.data) : df.data[r][j].k # "str")
NamesAt(df, ps) == [i \in 1..Len(ps) |-> df.columns[ps[i]]]

\* the mean of column j over a set of rows, the missing cells skipped
ColMean(df, rows, j) ==
    LET nums == {r \in rows : df.data[r][j].k = "num"}
    IN  [num |-> SumSeq([r \in 1..Len(df.data) |-> IF r \in nums THEN df.data[r][j].n ELSE 0]),
         den |-> Cardinality(nums)]

\* f'{x:.2f}': the mean in hundredths, rounded to the nearest; 'nan' for a
\* missing mean
format_2f(m) ==
    IF m.den = 0 THEN [k |-> "text", n |-> 0, s |-> "nan"]
    ELSE [k |-> "fixed2", n |-> (200 * m.num + m.den) \div (2 * m.den), s |-> ""]

\* the least and the greatest number of column j over a set of rows
ColRange(df, rows, j) ==
    LET vals == {df.data[r][j].n : r \in {q \in rows : df.data[q][j].k = "num"}}
    IN  IF vals = {} THEN <<>>
        ELSE <<Num(CHOOSE v \in vals : \A w \in vals : v <= w),
               Num(CHOOSE v \in vals : \A w \in vals : v >= w)>>

WhoRows(df) == 1..Len(df.data)
YearIs(df, r, year) == Cell(df, r, c_year) = Num(year)
CountryIs(df, r, country) == Cell(df, r, c_country) = Str(country)

Choropleth(title, year, entries, range) ==
    [kind |-> "choropleth", title |-> title, year |-> year, entries |-> entries,
     range_color |-> range]
WhoPlaceholder(t) == [kind |-> "empty", title |-> t]

\* appWHO.py lines 111-173 and app_who.py lines 115-149.  An entry of the map
\* is a country with the value that colours it.  The two differ in the colour
\* range of a table without any number for the indicator
update_global_graph(app, df, indicator, year) ==
    LET ip == ColPos(df, indicator)
        base == ColRange(df, {r \in WhoRows(df) : YearIs(df, r, BASE_year)}, ip)
        all == ColRange(df, WhoRows(df), ip)
        range == IF base # <<>> THEN base
                 ELSE IF all # <<>> THEN all
                 ELSE IF app = "appWHO" THEN <<>> ELSE <<NaN, NaN>>
        range_color == IF range # <<>> /\ (range[1] = NaN \/ range[1] # range[2])
                       THEN range ELSE <<>>
    IN  IF year = AggregateYear
        THEN IF ip \notin Range(numeric_cols(df))
             THEN WhoPlaceholder("is not a numeric column.")
             ELSE LET cs == SortedTexts({c.s : c \in Range(Col(df, c_country))})
                  IN  Choropleth("by Country (All Years Aggregated)", year,
                                 [i \in 1..Len(cs) |->
                                     [country |-> cs[i],
                                      value |-> ColMean(df, {r \in WhoRows(df) : CountryIs(df, r, cs[i])}, ip)]],
                                 range_color)
        ELSE LET rows == Positions([r \in 1..Len(df.data) |-> r], LAMBDA r : YearIs(df, r, year))
             IN  Choropleth("by Country (year)", year,
                            [i \in 1..Len(rows) |->
                                [country |-> Cell(df, rows[i], c_country).s,
                                 value |-> df.data[rows[i]][ip]]],
                            range_color)

\* the columns that are averaged: the numeric ones but year
numeric_cols_no_year(df) == SelectSeq(numeric_cols(df), LAMBDA j : df.columns[j] # c_year)

Profile(title, lines) == [kind |-> "profile", title |-> title, lines |-> lines]
NoDataProfile(title) == [kind |-> "nodata", title |-> title, lines |-> <<>>]
ProfileRaised(e) == [kind |-> "raise", title |-> e, lines |-> <<>>]

\* the lines of an averaged profile
AveragedLines(app, df, rows) ==
    LET cols == numeric_cols_no_year(df)
    IN  [i \in 1..Len(cols) |->
            [col |-> df.columns[cols[i]],
             text |-> IF app # "appWHO" /\ ColMean(df, rows, cols[i]).den = 0
                      THEN [k |-> "text", n |-> 0, s |-> "N/A"]
                      ELSE format_2f(ColMean(df, rows, cols[i]))]]

\* appWHO.py lines 183-238 and app_who.py lines 156-182
update_country_profile(app, df, country, year) ==
    LET rows == {r \in WhoRows(df) : /\ country # World => CountryIs(df, r, country)
                                     /\ year # AggregateYear => YearIs(df, r, year)}
        title == <<IF country = World THEN "Global Average" ELSE "Average or Profile",
                   country, year>>
        cols == numeric_cols_no_year(df)
    IN  IF country = World \/ year = AggregateYear
        THEN IF app = "appWHO" /\ \A i \in 1..Len(cols) : ColMean(df, rows, cols[i]).den = 0
             THEN NoDataProfile(title)
             ELSE Profile(title, AveragedLines(app, df, rows))
        ELSE IF rows = {} THEN NoDataProfile(title)
        ELSE LET first == MinOfRows(rows)
                 shown == SelectSeq([j \in 1..Len(df.columns) |-> j],
                                    LAMBDA j : df.columns[j] \notin {c_country, c_year})
             IN  IF app = "appWHO"
                 THEN Profile(title, [i \in 1..Len(shown) |->
                                        [col |-> df.columns[shown[i]],
                                         text |-> df.data[first][shown[i]]]])
                 ELSE IF \E i \in 1..Len(shown) : df.data[first][shown[i]].k = "str"
                 THEN ProfileRaised("ValueError: Unknown format code 'f' for object of type 'str'")
                 ELSE Profile(title, [i \in 1..Len(shown) |->
                                        [col |-> df.columns[shown[i]],
                                         text |-> IF df.data[first][shown[i]].k = "num"
                                                  THEN format_2f([num |-> df.data[first][shown[i]].n, den |-> 1])
                                                  ELSE [k |-> "text", n |-> 0, s |-> "N/A"]]])

\* DataFrame.corr() of two columns: Pearson's r over the rows where both have
\* a number, computed on the numbers less the column's least (r does not
\* change with a shift); missing when a column does not vary over those rows
corr(df, a, b) ==
    LET rows == {r \in WhoRows(df) : df.data[r][a].k = "num" /\ df.data[r][b].k = "num"}
        n == Cardinality(rows)
        lo(j) == IF rows = {} THEN 0
                 ELSE CHOOSE v \in {df.data[r][j].n : r \in rows} :
                          \A w \in {df.data[r][j].n : r \in rows} : v <= w
        x(r) == df.data[r][a].n - lo(a)
        y(r) == df.data[r][b].n - lo(b)
        S(f(_)) == SumSeq([r \in 1..Len(df.data) |-> IF r \in rows THEN f(r) ELSE 0])
        sx == S(x)
        sy == S(y)
        vx == n * S(LAMBDA r : x(r) * x(r)) - sx * sx
        vy == n * S(LAMBDA r : y(r) * y(r)) - sy * sy
        c == n * S(LAMBDA r : x(r) * y(r)) - sx * sy
    IN  IF vx = 0 \/ vy = 0 THEN [nan |-> TRUE, c |-> 0, vv |-> 1]
        ELSE [nan |-> FALSE, c |-> c, vv |-> vx * vy]

\* x >= y for two correlations that are not missing
CorrGE(x, y) ==
    IF x.c >= 0 /\ y.c < 0 THEN TRUE
    ELSE IF x.c < 0 /\ y.c >= 0 THEN FALSE
    ELSE IF x.c >= 0 THEN x.c * x.c * y.vv >= y.c * y.c * x.vv
    ELSE x.c * x.c * y.vv <= y.c * y.c * x.vv

RECURSIVE CorrDescOrders(_)
CorrDescOrders(S) ==
    IF S = {} THEN {<<>>}
    ELSE LET top == {x \in S : \A y \in S : CorrGE(x.val, y.val)}
         IN  UNION {{<<x>> \o rest : rest \in CorrDescOrders(S \ {x})} : x \in top}

\* a list that keeps the indicator
corrs_KeepIndicator(df, indicator) ==
    LET cols == numeric_cols(df)
        s == [i \in 1..Len(cols) |->
                [key |-> df.columns[cols[i]], val |-> corr(df, cols[i], ColPos(df, indicator))]]
        nans == SelectSeq(s, LAMBDA e : e.val.nan)
    IN  {o \o nans : o \in CorrDescOrders({e \in Range(s) : ~e.val.nan})}

\* numeric_df.corr()[indicator].drop(index=indicator).sort_values(ascending=False)
\* (appWHO.py lines 254, 293; app_who.py lines 193, 214): the possible lists,
\* the missing correlations last
corrs(df, indicator) ==
    LET cols == SelectSeq(numeric_cols(df), LAMBDA j : df.columns[j] # indicator)
        s == [i \in 1..Len(cols) |->
                [key |-> df.columns[cols[i]], val |-> corr(df, cols[i], ColPos(df, indicator))]]
        nans == SelectSeq(s, LAMBDA e : e.val.nan)
    IN  {o \o nans : o \in CorrDescOrders({e \in Range(s) : ~e.val.nan})}

CorrBar(t, cs) ==
    [kind |-> "bar", title |-> t,
     labels |-> [i \in 1..Len(cs) |-> cs[i].key], values |-> [i \in 1..Len(cs) |-> cs[i].val]]

\* appWHO.py lines 248-280, app_who.py lines 189-204
update_correlation_graph(df, indicator, hoverData) ==
    IF ColPos(df, indicator) \notin Range(numeric_cols(df))
    THEN {WhoPlaceholder("Cannot correlate non-numeric")}
    ELSE {CorrBar("Correlation with", cs) : cs \in corrs(df, indicator)}

\* appWHO.py lines 288-304, app_who.py lines 210-223
update_factors_list_graph(df, indicator) ==
    IF ColPos(df, indicator) \notin Range(numeric_cols(df))
    THEN {WhoPlaceholder("")}
    ELSE {CorrBar("", cs) : cs \in corrs(df, indicator)}

\* appWHO.py lines 312-315, app_who.py lines 229-230
update_factor_details(indicator) == [kind |-> "details", title |-> indicator]

\* a table that takes every year, 1999 too, as a calendar year
update_data_table_ByYear(df, country, year) ==
    LET rows == Positions([r \in 1..Len(df.data) |-> r],
                          LAMBDA r : /\ country # World => CountryIs(df, r, country)
                                     /\ YearIs(df, r, year))
    IN  [kind |-> "records", rows |-> [i \in 1..Len(rows) |-> df.data[rows[i]]]]

\* appWHO.py lines 324-340, app_who.py lines 237-243: the records of the rows kept
update_data_table(df, country, year) ==
    LET rows == Positions([r \in 1..Len(df.data) |-> r],
                          LAMBDA r : /\ country # World => CountryIs(df, r, country)
                                     /\ year # AggregateYear => YearIs(df, r, year))
    IN  [kind |-> "records", rows |-> [i \in 1..Len(rows) |-> df.data[rows[i]]]]

-----------------------------------------------------------------------------
(* A dashboard that is not running *)

NoFile == <<>>

FoodIdle ==
    /\ df_long_store = EmptyFrame
    /\ validated_filters = NoFilters
    /\ pending = {}
    /\ figure = NoFigures
    /\ food_controls = NoFilters

FlightsIdle ==
    /\ flights_app = ""
    /\ flights_df = EmptyFrame
    /\ airline_filter = <<>>
    /\ date_range = <<<<>>, <<>>>>
    /\ flights_out = NoFlightsOutputs
    /\ flights_error = ""

WhoOutputs ==
    {"global-graph", "country-profile", "correlation-graph", "factors-list-graph",
     "factor-details", "data-table"}
NoWhoOutputs == [o \in WhoOutputs |-> [kind |-> "none"]]

WhoIdle ==
    /\ who_app = ""
    /\ who_df = EmptyFrame
    /\ indicator_dropdown = <<>>
    /\ year_dropdown = 0
    /\ country_dropdown = <<>>
    /\ who_pending = {}
    /\ who_out = NoWhoOutputs

\* run.py is not the program that runs
NoEnv == [argv |-> <<>>, environ |-> <<>>, isatty |-> FALSE, input |-> <<>>, dirs |-> {}]
FolderIdle == run_env = NoEnv /\ data_folder = <<>>

LoadIdle ==
    /\ csv_file = NoFile
    /\ parquet_file = NoFile
    /\ load_pc = "off"
    /\ WIDE_DF = EmptyFrame
    /\ LONG_DF = EmptyFrame
    /\ console = <<>>
    /\ process = "running"
    /\ files_read = {}
    /\ FolderIdle

-----------------------------------------------------------------------------
(* The raw FAO tables the load is run on *)

Y2000 == <<"Y", "2", "0", "0", "0">>
Y2001 == <<"Y", "2", "0", "0", "1">>
D1999 == <<"1", "9", "9", "9">>
Y20 == <<"Y", "2", "0">>
Y2k == <<"Y", "2", "k">>
Ybare == <<"Y">>

RawSchemas ==
    { <<Area, Item, Y2000, Y2001>>,
      <<Country, Area, D1999, Y2000>>,
      <<Area, Item, Unit, Y2k, Y20>>,
      <<Item, Unit, Ybare>> }

\* the identifier cell of row r in a column named c
RawIdCell(c, r) ==
    IF c = Unit THEN Str(<<"1", "0", "0", "0", " ", "t", "o", "n", "n", "e", "s">>)
    ELSE IF c = Ybare THEN (IF r = 1 THEN NaN ELSE Str(<<"u">>))
    ELSE IF c = Y2k THEN Num(r)
    ELSE IF c \in {Area, Country} THEN (IF r = 2 THEN Str(<<" ", "B">>) ELSE Str(<<"A">>))
    ELSE Str(<<"P", DigitChar(r)>>)

\* a year column read from CSV is a float column (numbers and missing values) or
\* an object column (texts and missing values, at least one text)
NumericColumns(n) == [1..n -> {Num(3), Num(5), NaN}]
ObjectColumns(n) ==
    {c \in [1..n -> {Str(<<"7">>), Str(<<"x">>), NaN}] : \E r \in 1..n : c[r].k = "str"}
RawColumns(n) == NumericColumns(n) \cup ObjectColumns(n)

RawTables ==
    UNION { UNION { { [columns |-> sch,
                       index |-> RangeIndex(n),
                       data |-> [r \in 1..n |->
                                    [j \in 1..Len(sch) |->
                                        IF sch[j] \in {Y2000, Y2001, D1999, Y20}
                                        THEN ys[sch[j]][r] ELSE RawIdCell(sch[j], r)]]]
                     : ys \in [{Y2000, Y2001, D1999, Y20} \cap Range(sch) -> RawColumns(n)] }
                   : n \in 0..MaxRawRows }
            : sch \in RawSchemas }

-----------------------------------------------------------------------------
(* The import of app_food: lines 86-91 *)


\* a cache left by an earlier run on another FAO.csv
StaleCache ==
    [columns |-> <<Area, Item, Y2000>>,
     index |-> RangeIndex(1),
     data |-> << <<Str(<<"Z">>), Str(<<"P", "9">>), Num(9)>> >>]

InitLoad ==
    /\ \E t \in RawTables :
          \/ csv_file = <<t>> /\ parquet_file = NoFile
          \/ csv_file = <<t>> /\ parquet_file = <<light_clean(t)>>
          \/ csv_file = <<t>> /\ parquet_file = <<StaleCache>>
          \/ csv_file = NoFile /\ parquet_file = <<light_clean(t)>>
          \/ csv_file = NoFile /\ parquet_file = NoFile
    /\ load_pc = "import"
    /\ WIDE_DF = EmptyFrame
    /\ LONG_DF = EmptyFrame
    /\ console = <<>>
    /\ process = "starting"
    /\ files_read = {}
    /\ FolderIdle
    /\ FoodIdle
    /\ FlightsIdle
    /\ WhoIdle

\* WIDE_DF, LONG_DF = load_prepare_data() with the cache present
LoadFromParquet ==
    /\ load_pc = "import"
    /\ parquet_file # NoFile
    /\ LET res == load_prepare_data(parquet_file, csv_file, FALSE)
       IN  WIDE_DF' = res[1] /\ LONG_DF' = res[2] /\ parquet_file' = res[3]
           /\ files_read' = res[4]
    /\ load_pc' = "loaded"
    /\ process' = "running"
    /\ UNCHANGED <<csv_file, console, folderVars, foodVars, flightsVars, whoVars>>

\* ... with only the CSV present; the cache is written, or the write fails
LoadFromCsv ==
    /\ load_pc = "import"
    /\ parquet_file = NoFile /\ csv_file # NoFile
    /\ \E wrote \in BOOLEAN :
          LET res == load_prepare_data(parquet_file, csv_file, wrote)
          IN  WIDE_DF' = res[1] /\ LONG_DF' = res[2] /\ parquet_file' = res[3]
              /\ files_read' = res[4]
    /\ load_pc' = "loaded"
    /\ process' = "running"
    /\ UNCHANGED <<csv_file, console, folderVars, foodVars, flightsVars, whoVars>>

\* ... with no file at all
LoadNoData ==
    /\ load_pc = "import"
    /\ parquet_file = NoFile /\ csv_file = NoFile
    /\ LET res == load_prepare_data(parquet_file, csv_file, FALSE)
       IN  WIDE_DF' = res[1] /\ LONG_DF' = res[2] /\ parquet_file' = res[3]
           /\ files_read' = res[4]
    /\ load_pc' = "loaded"
    /\ process' = "running"
    /\ UNCHANGED <<csv_file, console, folderVars, foodVars, flightsVars, whoVars>>

NextLoad == LoadFromParquet \/ LoadFromCsv \/ LoadNoData

SpecLoad == InitLoad /\ [][NextLoad]_vars

\* the process ends and python runs app_food again: the files stay, the
\* module's globals and the lru_cache of line 21 are those of a new process
Restart ==
    /\ load_pc = "loaded"
    /\ load_pc' = "import"
    /\ process' = "starting"
    /\ WIDE_DF' = EmptyFrame
    /\ LONG_DF' = EmptyFrame
    /\ files_read' = {}
    /\ UNCHANGED <<csv_file, parquet_file, console, folderVars, foodVars, flightsVars, whoVars>>

\* runs of app_food one after the other, the first with FAO.csv and no cache
InitCache == InitLoad /\ csv_file # NoFile /\ parquet_file = NoFile
NextCache == LoadFromCsv \/ LoadFromParquet \/ Restart
SpecCache == InitCache /\ [][NextCache]_vars

-----------------------------------------------------------------------------
(* The FAO tables the food dashboard is run on *)

Y2002 == <<"Y", "2", "0", "0", "2">>

\* a table in the FAO layout from rows <<country, product, v1, v2, ...>>
FaoTable(cols, rows) ==
    [columns |-> cols,
     index |-> RangeIndex(Len(rows)),
     data |-> [r \in 1..Len(rows) |->
                [j \in 1..Len(cols) |->
                    IF j <= 2 THEN Str(rows[r][j]) ELSE rows[r][j]]]]

\* two countries and three products over three years, with products at, under
\* and over 3% of a country's total, and a total that is zero or negative
ShareTables ==
    { FaoTable(<<Area, Item, Y2000, Y2001, Y2002>>,
               << <<<<"B">>, <<"P", "1">>, Num(0), Num(a), Num(0)>>,
                  <<<<"A">>, <<"P", "1">>, Num(2), Num(4), Num(0)>>,
                  <<<<"B">>, <<"P", "2">>, Num(0), Num(b), Num(d)>>,
                  <<<<"B">>, <<"P", "3">>, Num(0), Num(1), Num(0)>> >>)
      : a \in {96, 0}, b \in {3, -1}, d \in {0, 2} }

\* the i-th capital letter
Letter(i) == Alphabet[14 + i]

\* the value of row i in ranking pattern k: all different, all equal, two
\* values in turn, equal in pairs
RankValue(k, i) ==
    CASE k = 1 -> i
      [] k = 2 -> 1
      [] k = 3 -> (i % 2) + 1
      [] k = 4 -> (i + 1) \div 2

\* n countries and n products in one year; the countries come in descending
\* order of name, so that the row order is not the order of the names
RankTables ==
    { FaoTable(<<Area, Item, Y2000>>,
               [i \in 1..n |-> <<<<Letter(n + 1 - i)>>, <<"p", Letter(i)>>, Num(RankValue(k, i))>>])
      : n \in {3, NGroups}, k \in 1..4 }

\* a country whose only product has no value in the first two years
SparseTables ==
    { FaoTable(<<Area, Item, Y2000, Y2001, Y2002>>,
               << <<<<"A">>, <<"P", "1">>, Num(1), Num(2), Num(3)>>,
                  <<<<"B">>, <<"P", "2">>, NaN, NaN, Num(5)>> >>) }

\* a table without products and a table without countries
PartialTables ==
    { [columns |-> <<id, Y2000, Y2001>>,
       index |-> RangeIndex(2),
       data |-> << <<Str(<<"A">>), Num(1), Num(2)>>, <<Str(<<"B">>), Num(3), NaN>> >>]
      : id \in {Area, Item} }

FoodTables == ShareTables \cup RankTables \cup SparseTables

\* NGroups countries with a product each, and a year without any value
GridTables ==
    { FaoTable(<<Area, Item, Y2000, Y2001, Y2002>>,
               [i \in 1..NGroups |->
                   <<<<Letter(NGroups + 1 - i)>>, <<"p", Letter(i)>>, Num(i), NaN, Num(1)>>]) }

-----------------------------------------------------------------------------
(* The food dashboard after its import: the callbacks *)

ChartOutputs == {"bar-top-areas", "bar-top-items", "ts-top-areas", "pie-area"}

InitFoodOn(tables) ==
    \E t \in tables :
        LET res == load_prepare_data(NoFile, <<t>>, TRUE)
        IN  /\ csv_file = <<t>>
            /\ parquet_file = res[3]
            /\ load_pc = "serving"
            /\ console = <<>>
            /\ process = "running"
            /\ files_read = res[4]
            /\ FolderIdle
            /\ WIDE_DF = res[1]
            /\ LONG_DF = res[2]
            /\ df_long_store = to_json(res[2])
            /\ \E dc \in DefaultCountries(res[2]) :
                  /\ validated_filters = InitialFilters(res[2], dc)
                  /\ food_controls = InitialControls(res[2], dc)
            /\ pending = ChartOutputs
            /\ figure = NoFigures
            /\ FlightsIdle
            /\ WhoIdle

InitFood == InitFoodOn(FoodTables)

\* the values the three controls can hold when Apply is clicked: nothing
\* (None), or a selection among the options the layout offers
Last(s) == s[Len(s)]

AreaDropdownValues ==
    {<<>>} \cup (IF CountryOptions(LONG_DF) = <<>> THEN {}
                 ELSE {<< <<Last(CountryOptions(LONG_DF))>> >>})
ItemDropdownValues ==
    {<<>>} \cup (IF ProductOptions(LONG_DF) = <<>> THEN {}
                 ELSE {<< <<Last(ProductOptions(LONG_DF))>> >>})
YearRangeValues ==
    LET lo == MinYear(LONG_DF)
        hi == MaxYear(LONG_DF)
        mid == (lo + hi) \div 2
    IN  {<<>>, << <<lo, mid>> >>}

\* one input event at a time, when the callbacks of the previous event have
\* run.  The user changes the value of the three controls: they are State of
\* update_validated_filters (lines 304-306), so that no callback runs
ChangeFilters ==
    /\ load_pc = "serving"
    /\ pending = {}
    /\ \E countries \in AreaDropdownValues :
       \E products \in ItemDropdownValues :
       \E year_range \in YearRangeValues :
          /\ food_controls' = [countries |-> countries, products |-> products,
                               year_range |-> year_range]
          /\ food_controls' # food_controls
    /\ UNCHANGED <<loadVars, df_long_store, validated_filters, pending, figure,
                   flightsVars, whoVars>>

\* the user selects the first countries of the dropdown, any number of them,
\* and all the years or the middle year of the slider (lines 180-208)
Prefixes(s) == {SubSeq(s, 1, n) : n \in 0..Len(s)}
SelectAreas ==
    /\ load_pc = "serving"
    /\ pending = {}
    /\ \E countries \in Prefixes(CountryOptions(LONG_DF)) :
       \E year \in {(MinYear(LONG_DF) + MaxYear(LONG_DF)) \div 2} :
       \E year_range \in {<<MinYear(LONG_DF), MaxYear(LONG_DF)>>, <<year, year>>} :
          /\ food_controls' = [food_controls EXCEPT !.countries = <<countries>>,
                                                    !.year_range = <<year_range>>]
          /\ food_controls' # food_controls
    /\ UNCHANGED <<loadVars, df_long_store, validated_filters, pending, figure,
                   flightsVars, whoVars>>

\* the outputs of the callbacks that have Input("validated-filters", "data")
\* (lines 319, 353, 384, 439)
FilterDependents_NoPie == ChartOutputs \ {"pie-area"}
FilterDependents == ChartOutputs

\* Apply is clicked.  n_clicks is None only for the first call that Dash makes
\* when the page loads, which changes nothing (PreventUpdate).
ApplyFilters ==
    /\ load_pc = "serving"
    /\ pending = {}
    /\ \E n_clicks \in {<<>>, <<1>>} :
          IF n_clicks = <<>>
          THEN UNCHANGED <<validated_filters, pending>>
          ELSE /\ validated_filters' =
                     update_validated_filters(food_controls.countries, food_controls.products,
                                              food_controls.year_range)
               /\ pending' = FilterDependents
    /\ UNCHANGED <<loadVars, df_long_store, figure, food_controls, flightsVars, whoVars>>

\* the callback of a chart runs and returns one of figs: it writes its own
\* Output and nothing else
Render_Clobber(output, figs) ==
    /\ load_pc = "serving"
    /\ output \in pending
    /\ \E fig \in figs : figure' = [o \in ChartOutputs |->
                                      IF o \in {output, "bar-top-items"} THEN fig ELSE figure[o]]
    /\ pending' = pending \ {output}
    /\ UNCHANGED <<loadVars, df_long_store, validated_filters, food_controls, flightsVars,
                   whoVars>>
Render(output, figs) ==
    /\ load_pc = "serving"
    /\ output \in pending
    /\ \E fig \in figs : figure' = [figure EXCEPT ![output] = fig]
    /\ pending' = pending \ {output}
    /\ UNCHANGED <<loadVars, df_long_store, validated_filters, food_controls, flightsVars,
                   whoVars>>

UpdateTopAreas == Render("bar-top-areas", update_top_areas(validated_filters, df_long_store))
UpdateTopItems == Render("bar-top-items", update_top_items(validated_filters, df_long_store))
UpdateTimeSeries == Render("ts-top-areas", update_time_series(validated_filters, df_long_store))
UpdatePie == Render("pie-area", update_pie(validated_filters, df_long_store))

NextFood ==
    ChangeFilters \/ ApplyFilters \/ UpdateTopAreas \/ UpdateTopItems \/ UpdateTimeSeries \/ UpdatePie

SpecFood == InitFood /\ [][NextFood]_vars

\* the food dashboard on a table of NGroups countries, with selections of
\* every size
InitPieGrid == InitFoodOn(GridTables)
NextPieGrid ==
    \/ SelectAreas
    \/ ApplyFilters
    \/ UpdateTopAreas
    \/ UpdateTopItems
    \/ UpdateTimeSeries
    \/ UpdatePie
SpecPieGrid == InitPieGrid /\ [][NextPieGrid]_vars

-----------------------------------------------------------------------------
(* The flights tables the flights dashboards are run on *)

FlightsSchemas ==
    { <<AIRLINE_NAME, ORIGIN_NAME, ARRIVAL_DELAY, DATE>>,
      <<AIRLINE, ORIGIN_AIRPORT, ARRIVAL_DELAY, DATE>>,
      <<AIRLINE_NAME, ARRIVAL_DELAY, DATE>>,
      <<AIRLINE_NAME, ORIGIN_NAME, DATE>>,
      <<AIRLINE_NAME, ORIGIN_NAME, ARRIVAL_DELAY>>,
      <<AIRLINE_NAME, ORIGIN_NAME, ARRIVAL_DELAY, DATE, WEATHER_DELAY, SECURITY_DELAY>> }

\* a flights table from rows [air, port, delay, date], with the columns of cols;
\* the weather is the cause of every delay, security of none
FlightsTable(cols, rows) ==
    [columns |-> cols,
     index |-> RangeIndex(Len(rows)),
     data |-> [r \in 1..Len(rows) |->
                [j \in 1..Len(cols) |->
                    CASE cols[j] \in {AIRLINE_NAME, AIRLINE} -> rows[r].air
                      [] cols[j] \in {ORIGIN_NAME, ORIGIN_AIRPORT} -> rows[r].port
                      [] cols[j] = ARRIVAL_DELAY -> rows[r].delay
                      [] cols[j] = DATE -> rows[r].date
                      [] cols[j] = WEATHER_DELAY -> to_numeric(rows[r].delay)
                      [] cols[j] = SECURITY_DELAY -> NaN]]]

Flight(a, p, d, t) == [air |-> a, port |-> p, delay |-> d, date |-> t]

\* the delay of flight i of n in pattern k: all different, or the two smallest
\* equal and the two largest equal
FlightDelay(k, n, i) ==
    IF k = 1 THEN i
    ELSE IF i <= 2 THEN 1 ELSE IF i >= n - 1 THEN n ELSE i

\* one flight per airline and per airport, the airlines in descending order of
\* name, on two days
RankFlights ==
    { FlightsTable(<<AIRLINE_NAME, ORIGIN_NAME, ARRIVAL_DELAY, DATE>>,
                   [i \in 1..n |-> Flight(Str(<<Letter(n + 1 - i)>>), Str(<<Letter(i)>>),
                                          Num(FlightDelay(k, n, i)), Date(1 + (i % 2)))])
      : n \in {3, NFlights}, k \in 1..2 }

\* airlines and airports of several flights, of which some have no delay, a
\* text for a delay, no airline or no airport; airlines E and D have equal means
MeanFlights ==
    { FlightsTable(cols,
        << Flight(Str(<<"E">>), Str(<<"Y">>), Num(4), Date(1)),
           Flight(Str(<<"A">>), Str(<<"X">>), Num(1), Date(1)),
           Flight(Str(<<"E">>), Str(<<"X">>), NaN, Date(2)),
           Flight(Str(<<"A">>), Str(<<"Y">>), Num(4), Date(2)),
           Flight(Str(<<"C">>), Str(<<"Z">>), NaN, Date(1)),
           Flight(NaN, Str(<<"X">>), Num(9), Date(1)),
           Flight(Str(<<"C">>), Str(<<"Z">>), Str(<<"x">>), Date(2)),
           Flight(Str(<<"D">>), NaN, Num(4), Date(2)) >>)
      : cols \in FlightsSchemas }

FlightsTables == RankFlights \cup MeanFlights

\* flights of a Friday, a Monday and a Wednesday, in this order, with the day
\* of the week as a French name, a French name between blanks, an English
\* name, another text, a number or nothing; with DATE, DAY_OF_WEEK or both
DayValues ==
    {Str(<<"J", "e", "u", "d", "i">>), Str(<<" ", "M", "a", "r", "d", "i", " ">>),
     Str(<<"S", "u", "n", "d", "a", "y">>), Str(<<"l", "u", "n", "d", "i">>), Num(3), NaN}
DayTables ==
    { [columns |-> <<AIRLINE_NAME, ORIGIN_NAME, ARRIVAL_DELAY>> \o cols,
       index |-> RangeIndex(3),
       data |-> [r \in 1..3 |->
                   <<Str(<<Letter(r)>>), Str(<<"X">>), Num(r)>>
                   \o [j \in 1..Len(cols) |->
                          IF cols[j] = DATE THEN Date(<<5, 1, 3>>[r])
                          ELSE <<Str(<<"V", "e", "n", "d", "r", "e", "d", "i">>),
                                 Str(<<"L", "u", "n", "d", "i">>), x>>[r]]]]
      : cols \in {<<DATE>>, <<DAY_OF_WEEK>>, <<DATE, DAY_OF_WEEK>>}, x \in DayValues }

-----------------------------------------------------------------------------
(* A flights dashboard: its construction and its callback *)

FlightsApps == {"flights.dashboard", "app_flights", "dashboard"}

\* register_callbacks (flights/dashboard/callbacks.py line 147) and the import
\* of app_flights (line 30) preprocess the table; create_dash_app
\* (dashboard/app.py line 13) is given a prepared frame, with numeric delays
InitFlightsOn(apps, tables) ==
    /\ LoadIdle
    /\ FoodIdle
    /\ WhoIdle
    /\ \E app \in apps : \E t \in tables :
          /\ flights_app = app
          /\ flights_df = (IF app = "dashboard" THEN to_types(t) ELSE preprocess(t))
          /\ airline_filter = <<>>
          /\ date_range = <<min_date(to_types(t)), max_date(to_types(t))>>
    /\ flights_out = NoFlightsOutputs
    /\ flights_error = ""

InitFlights == InitFlightsOn(FlightsApps, FlightsTables)

AirlineValues ==
    {<<>>} \cup (IF unique_airlines(flights_app, flights_df) = <<>> THEN {}
                 ELSE {<<Last(unique_airlines(flights_app, flights_df))>>})
DateValues == {<<>>, min_date(flights_df), max_date(flights_df)}

\* an input changes (or the page loads) and the callback runs; when it raises,
\* Dash leaves the outputs as they were
UpdateFlights ==
    /\ flights_app \in FlightsApps
    /\ \E airline \in AirlineValues : \E start \in DateValues : \E end \in DateValues :
          /\ airline_filter' = airline
          /\ date_range' = <<start, end>>
          /\ \E res \in (IF flights_app = "dashboard"
                         THEN dashboard_update(flights_df, airline, start, end)
                         ELSE update(flights_app, flights_df, airline, start, end)) :
                /\ flights_error' = res.raised
                /\ flights_out' = IF res.raised = "" THEN res.out ELSE flights_out
          /\ flights_df' = shared_after(flights_app, flights_df, airline, start, end)
    /\ UNCHANGED <<loadVars, foodVars, flights_app, whoVars>>

NextFlights == UpdateFlights

SpecFlights == InitFlights /\ [][NextFlights]_vars

\* the two flights versions that preprocess their table, on the tables of days
InitDays == InitFlightsOn({"flights.dashboard", "app_flights"}, DayTables)
SpecDays == InitDays /\ [][NextFlights]_vars

\* the dashboards that rank: food and flights
InitRankings == InitFood \/ InitFlights
NextRankings == NextFood \/ NextFlights
SpecRankings == InitRankings /\ [][NextRankings]_vars

\* food and flights on tables of which some lack a column
InitColumns == InitFoodOn(PartialTables) \/ InitFlights
SpecColumns == InitColumns /\ [][NextRankings]_vars

-----------------------------------------------------------------------------
(* The WHO tables the dashboards are run on *)

WhoColumns == <<c_country, c_year, c_life_expectancy, c_IDH, c_GDP, c_population>>

WhoTable(rows) ==
    [columns |-> WhoColumns, index |-> RangeIndex(Len(rows)), data |-> rows]

WhoRow(c, y, le, idh, gdp) ==
    <<Str(<<c>>), Num(y), le, idh, Num(gdp), Num(2 * gdp + 1)>>

\* the year y0, the last life expectancy as read, the IDH of "A" in y0, and
\* whether GDP varies: y0 is 1999 itself, a year before it or a year after
\* it; a life expectancy is unreadable or not; IDH has a text or not; GDP
\* and population vary together or do not vary
WhoCases ==
    {<<1999, Str(<<"x">>), Num(0), 1>>, <<1999, Num(0), Str(<<"x">>), 1>>,
     <<1999, Num(0), Num(0), 0>>, <<2002, Str(<<"x">>), Num(0), 0>>,
     <<2002, Num(0), Str(<<"x">>), 1>>, <<1998, Num(0), Num(0), 1>>}

\* country "B" comes first and has two years
WhoTables ==
    {WhoTable(<<WhoRow("B", p[1], Num(1), Num(2), 2 + p[4]),
                WhoRow("B", 2000, Num(3), Num(2), 2 - p[4]),
                WhoRow("A", p[1], Num(2), p[3], 2),
                WhoRow("A", 2001, p[2], Num(1), 2 - 2 * p[4])>>) : p \in WhoCases}

WhoApps == {"appWHO", "who.app_who"}

-----------------------------------------------------------------------------
(* The WHO dashboards, served *)

\* the options of the dropdown "indicator-dropdown" (appWHO.py lines 58-61)
IndicatorOptions == {c_life_expectancy, c_IDH}

\* the data file is read, the layout is built with its initial values and
\* every callback is triggered once
InitWHOOn(tables) ==
    /\ LoadIdle
    /\ FoodIdle
    /\ FlightsIdle
    /\ who_app \in WhoApps
    /\ \E csv \in tables : who_df = who_load_data(csv)
    /\ indicator_dropdown = c_life_expectancy
    /\ year_dropdown = Last(SortedInts(Range(who_years(who_df))))
    /\ country_dropdown = World
    /\ who_pending = WhoOutputs
    /\ who_out = [NoWhoOutputs EXCEPT !["data-table"] =
                      [kind |-> "records", rows |-> who_df.data]]

InitWHO == InitWHOOn(WhoTables)

WhoUnchanged == UNCHANGED <<loadVars, foodVars, flightsVars, who_app, who_df>>

ChangeIndicator ==
    /\ who_app # "" /\ who_pending = {}
    /\ \E i \in IndicatorOptions :
          /\ i # indicator_dropdown
          /\ indicator_dropdown' = i
    /\ who_pending' = {"global-graph", "correlation-graph", "factors-list-graph", "factor-details"}
    /\ UNCHANGED <<year_dropdown, country_dropdown, who_out>>
    /\ WhoUnchanged

ChangeYear ==
    /\ who_app # "" /\ who_pending = {}
    /\ \E y \in Range(who_years(who_df)) :
          /\ y # year_dropdown
          /\ year_dropdown' = y
    /\ who_pending' = {"global-graph", "country-profile", "data-table"}
    /\ UNCHANGED <<indicator_dropdown, country_dropdown, who_out>>
    /\ WhoUnchanged

ChangeCountry ==
    /\ who_app # "" /\ who_pending = {}
    /\ \E c \in Range(who_countries(who_df)) :
          /\ c # country_dropdown
          /\ country_dropdown' = c
    /\ who_pending' = {"country-profile", "data-table"}
    /\ UNCHANGED <<indicator_dropdown, year_dropdown, who_out>>
    /\ WhoUnchanged

\* the pointer moves over a bar of "factors-list-graph"
HoverFactors ==
    /\ who_app # "" /\ who_pending = {}
    /\ who_out["factors-list-graph"].kind = "bar"
    /\ who_pending' = {"correlation-graph"}
    /\ UNCHANGED <<indicator_dropdown, year_dropdown, country_dropdown, who_out>>
    /\ WhoUnchanged

\* the callback of output o runs and returns one of vals
WhoRender(o, vals) ==
    /\ who_app # "" /\ o \in who_pending
    /\ \E v \in vals : who_out' = [who_out EXCEPT ![o] = v]
    /\ who_pending' = who_pending \ {o}
    /\ UNCHANGED <<indicator_dropdown, year_dropdown, country_dropdown>>
    /\ WhoUnchanged

UpdateGlobalGraph ==
    WhoRender("global-graph",
              {update_global_graph(who_app, who_df, indicator_dropdown, year_dropdown)})
UpdateCountryProfile ==
    WhoRender("country-profile",
              {update_country_profile(who_app, who_df, country_dropdown, year_dropdown)})
UpdateCorrelationGraph ==
    WhoRender("correlation-graph", update_correlation_graph(who_df, indicator_dropdown, <<>>))
UpdateFactorsListGraph ==
    WhoRender("factors-list-graph", update_factors_list_graph(who_df, indicator_dropdown))
UpdateFactorDetails ==
    WhoRender("factor-details", {update_factor_details(indicator_dropdown)})
UpdateDataTable ==
    WhoRender("data-table", {update_data_table(who_df, country_dropdown, year_dropdown)})

NextWHO ==
    \/ ChangeIndicator \/ ChangeYear \/ ChangeCountry \/ HoverFactors
    \/ UpdateGlobalGraph \/ UpdateCountryProfile \/ UpdateCorrelationGraph
    \/ UpdateFactorsListGraph \/ UpdateFactorDetails \/ UpdateDataTable

SpecWHO == InitWHO /\ [][NextWHO]_vars

\* the WHO dashboards on tables whose years all come before 1999, or end with
\* 1999, or that have a country named 'World'
LayoutRow(c, y, le) == <<Str(c), Num(y), Num(le), Num(le + 1), Num(y - 1990), Num(3)>>
LayoutTables ==
    {WhoTable(<<LayoutRow(c[1], y[1], 1), LayoutRow(c[1], y[2], 3),
                LayoutRow(c[2], y[1], 2), LayoutRow(c[2], y[2], 2)>>) :
        c \in {<< <<"B">>, <<"A">> >>, <<World, <<"A">> >>},
        y \in {<<1997, 1998>>, <<1998, 1999>>, <<2001, 2000>>}}

InitWhoLayout == InitWHOOn(LayoutTables)
SpecWhoLayout == InitWhoLayout /\ [][NextWHO]_vars

\* any of the dashboards, served
InitServing == InitFood \/ InitFlights \/ InitWHO
NextServing == NextFood \/ NextFlights \/ NextWHO
SpecServing == InitServing /\ [][NextServing]_vars

-----------------------------------------------------------------------------
(* The start of a dashboard, its data file present or missing.  csv_file is
   the data file of the dashboard that starts; console holds one entry per
   report *)

USA == <<"U", "S", "A">>
Canada == <<"C", "a", "n", "a", "d", "a">>

\* appWHO.py lines 20-27, app_who.py lines 21-28: the dummy frame, the life
\* expectancy in tenths and the IDH in hundredths
DummyFrame ==
    [columns |-> WhoColumns,
     index |-> RangeIndex(4),
     data |-> << <<Str(USA), Num(2000), Num(768), Num(88), Num(40000), Num(282)>>,
                 <<Str(USA), Num(2001), Num(770), Num(89), Num(41000), Num(285)>>,
                 <<Str(Canada), Num(2000), Num(791), Num(89), Num(38000), Num(30)>>,
                 <<Str(Canada), Num(2001), Num(794), Num(90), Num(39000), Num(31)>> >>]

StartApps == WhoApps \cup {"app_flights", "run"}

\* no module is imported yet; the data file is there or not
InitStartup ==
    \/ InitLoad
    \/ /\ \E app \in StartApps :
             /\ who_app = (IF app \in WhoApps THEN app ELSE "")
             /\ flights_app = (IF app = "app_flights" THEN app
                               ELSE IF app = "run" THEN "dashboard" ELSE "")
             /\ csv_file \in {NoFile} \cup {<<t>> : t \in (IF app \in WhoApps THEN WhoTables
                                                            ELSE FlightsTables)}
       /\ parquet_file = NoFile
       /\ load_pc = "off"
       /\ WIDE_DF = EmptyFrame
       /\ LONG_DF = EmptyFrame
       /\ console = <<>>
       /\ process = "starting"
       /\ files_read = {}
       /\ FolderIdle
       /\ FoodIdle
       /\ flights_df = EmptyFrame
       /\ airline_filter = <<>>
       /\ date_range = <<<<>>, <<>>>>
       /\ flights_out = NoFlightsOutputs
       /\ flights_error = ""
       /\ who_df = EmptyFrame
       /\ indicator_dropdown = <<>>
       /\ year_dropdown = 0
       /\ country_dropdown = <<>>
       /\ who_pending = {}
       /\ who_out = NoWhoOutputs

\* appWHO.py lines 12-44 and 58-102, app_who.py lines 10-35: the file is read,
\* or its absence is reported and the dummy frame stands in; then the layout
StartWHO ==
    /\ process = "starting"
    /\ who_app \in WhoApps
    /\ LET df == who_load_data(IF csv_file = NoFile THEN DummyFrame ELSE csv_file[1])
       IN  /\ who_df' = df
           /\ year_dropdown' = Last(SortedInts(Range(who_years(df))))
           /\ who_out' = [NoWhoOutputs EXCEPT !["data-table"] =
                              [kind |-> "records", rows |-> df.data]]
    /\ indicator_dropdown' = c_life_expectancy
    /\ country_dropdown' = World
    /\ who_pending' = WhoOutputs
    /\ console' = (IF csv_file = NoFile
                   THEN console \o <<"ERROR: Could not find 'data/Life Expectancy Data with IDH.csv'">>
                   ELSE console)
    /\ process' = "running"
    /\ UNCHANGED <<csv_file, parquet_file, load_pc, WIDE_DF, LONG_DF, files_read, folderVars, foodVars, flightsVars,
                   who_app>>

\* app_flights.py lines 9 and 30-33: read_csv is not guarded, and a missing
\* file ends the import with FileNotFoundError
StartAppFlights ==
    /\ process = "starting"
    /\ flights_app = "app_flights"
    /\ IF csv_file = NoFile
       THEN /\ process' = "raised"
            /\ UNCHANGED <<flights_df, date_range>>
       ELSE /\ process' = "running"
            /\ flights_df' = preprocess(csv_file[1])
            /\ date_range' = <<min_date(preprocess(csv_file[1])), max_date(preprocess(csv_file[1]))>>
    /\ UNCHANGED <<csv_file, parquet_file, load_pc, WIDE_DF, LONG_DF, console, files_read,
                   folderVars, foodVars,
                   flights_app, airline_filter, flights_out, flights_error, whoVars>>

\* run.py lines 59-77 (after get_data_folder) and dashboard/app.py lines 13-44: main prints the error
\* of a missing flights file and exits with status 1
StartRun ==
    /\ process = "starting"
    /\ flights_app = "dashboard"
    /\ IF csv_file = NoFile
       THEN /\ process' = "exited"
            /\ console' = console \o <<"Erreur: FileNotFoundError">>
            /\ UNCHANGED <<flights_df, date_range>>
       ELSE /\ process' = "running"
            /\ console' = console
            /\ flights_df' = to_types(csv_file[1])
            /\ date_range' = <<min_date(to_types(csv_file[1])), max_date(to_types(csv_file[1]))>>
    /\ UNCHANGED <<csv_file, parquet_file, load_pc, WIDE_DF, LONG_DF, files_read, folderVars, foodVars,
                   flights_app, airline_filter, flights_out, flights_error, whoVars>>

NextStartup == NextLoad \/ StartWHO \/ StartAppFlights \/ StartRun

SpecStartup == InitStartup /\ [][NextStartup]_vars

-----------------------------------------------------------------------------
(* run.py, get_data_folder.  A path is a text; a folder that exists is the
   sequence of its names from the root.  There are no symbolic links. *)

\* str.split("/")
RECURSIVE PathNames(_, _)
PathNames(path, name) ==
    IF path = <<>> THEN <<name>>
    ELSE IF Head(path) = "/" THEN <<name>> \o PathNames(Tail(path), <<>>)
    ELSE PathNames(Tail(path), Append(name, Head(path)))

\* "/".join(names) after the root
RECURSIVE PathText(_)
PathText(names) ==
    IF names = <<>> THEN <<>>
    ELSE IF Len(names) = 1 THEN Head(names)
    ELSE Head(names) \o <<"/">> \o PathText(Tail(names))

isabs(path) == path # <<>> /\ Head(path) = "/"

\* os.getcwd(), the folder of run.py and config.DEFAULT_DATA_FOLDER (config.py
\* line 10: the folder of config.py, "..", "data")
getcwd == << <<"w">> >>
AppFolder == << <<"a">> >>
DEFAULT_DATA_FOLDER == <<"/", "a", "/", ".", ".", "/", "d">>

Parent(folder) == IF folder = <<>> THEN folder ELSE SubSeq(folder, 1, Len(folder) - 1)

\* os.path.normpath of an absolute path: the names are collapsed as written
RECURSIVE normpath(_, _)
normpath(names, folder) ==
    IF names = <<>> THEN folder
    ELSE IF Head(names) \in {<<>>, <<".">>} THEN normpath(Tail(names), folder)
    ELSE IF Head(names) = <<".", ".">> THEN normpath(Tail(names), Parent(folder))
    ELSE normpath(Tail(names), Append(folder, Head(names)))

\* os.path.abspath
abspath(path) ==
    <<"/">> \o PathText(normpath(PathNames(path, <<>>),
                                 IF isabs(path) THEN <<>> ELSE getcwd))

\* the folder the system finds at the end of the names, <<folder>>, or <<>>
\* when a name is no folder
RECURSIVE Lookup(_, _, _)
Lookup(dirs, names, folder) ==
    IF names = <<>> THEN <<folder>>
    ELSE IF Head(names) \in {<<>>, <<".">>} THEN Lookup(dirs, Tail(names), folder)
    ELSE IF Head(names) = <<".", ".">> THEN Lookup(dirs, Tail(names), Parent(folder))
    ELSE IF Append(folder, Head(names)) \in dirs
         THEN Lookup(dirs, Tail(names), Append(folder, Head(names)))
         ELSE <<>>

FolderOf(dirs, path) ==
    IF path = <<>> THEN <<>>
    ELSE Lookup(dirs, PathNames(path, <<>>), IF isabs(path) THEN <<>> ELSE getcwd)

\* os.path.isdir
isdir(dirs, path) == FolderOf(dirs, path) # <<>>

\* run.py lines 23-55.  argv and environ are <<>> without the argument or the
\* variable, else <<its text>>; input is <<the line typed>>, or <<>> when
\* input() raises (end of file).  The result is the folder and what is printed
get_data_folder_EnvFirst(e) ==
    LET arg == IF e.argv # <<>> /\ e.argv[1] # <<>> THEN e.argv ELSE <<>>
        env == IF e.environ # <<>> /\ e.environ[1] # <<>> THEN e.environ ELSE <<>>
    IN  IF env # <<>> /\ isdir(e.dirs, env[1]) THEN [folder |-> abspath(env[1]), printed |-> <<>>]
        ELSE IF arg # <<>> /\ isdir(e.dirs, arg[1])
        THEN [folder |-> abspath(arg[1]), printed |-> <<>>]
        ELSE [folder |-> abspath(DEFAULT_DATA_FOLDER), printed |-> <<"[Info]">>]
get_data_folder(e) ==
    LET arg == IF e.argv # <<>> /\ e.argv[1] # <<>> THEN e.argv ELSE <<>>
        env == IF e.environ # <<>> /\ e.environ[1] # <<>> THEN e.environ ELSE <<>>
        candidate == IF e.isatty /\ e.input # <<>> /\ strip(e.input[1]) # <<>>
                     THEN <<strip(e.input[1])>> ELSE <<>>
        warn1 == IF arg # <<>> THEN <<"[Warning] Dossier fourni introuvable">> ELSE <<>>
        warn2 == IF env # <<>> THEN <<"[Warning] DATA_FOLDER defini mais dossier introuvable">>
                 ELSE <<>>
        warn3 == IF candidate # <<>> THEN <<"[Warning] Dossier introuvable">> ELSE <<>>
    IN  IF arg # <<>> /\ isdir(e.dirs, arg[1])
        THEN [folder |-> abspath(arg[1]), printed |-> <<>>]
        ELSE IF env # <<>> /\ isdir(e.dirs, env[1])
        THEN [folder |-> abspath(env[1]), printed |-> warn1]
        ELSE IF candidate # <<>> /\ isdir(e.dirs, candidate[1])
        THEN [folder |-> abspath(candidate[1]), printed |-> warn1 \o warn2]
        ELSE [folder |-> abspath(DEFAULT_DATA_FOLDER),
              printed |-> warn1 \o warn2 \o warn3 \o <<"[Info] Utilisation du dossier par defaut">>]

\* the paths given to run.py: "/d", "d", "x", "d/..", "" and, typed, " d ", " "
GivenPaths ==
    { <<"/", "d">>, <<"d">>, <<"x">>, <<"d", "/", ".", ".">>, <<>> }
TypedLines ==
    { <<" ", "d", " ">>, <<"d">>, <<>>, <<" ">>, <<"x">>, <<"/", "d">> }

\* the folders that exist: the root, the working folder, the folder of run.py
\* and any of /d (the default data folder) and /w/d
Folders ==
    { {<<>>, getcwd, AppFolder} \cup more : more \in SUBSET { << <<"d">> >>, getcwd \o << <<"d">> >> } }

RunEnvs ==
    { [argv |-> a, environ |-> v, isatty |-> t, input |-> i, dirs |-> d] :
        a \in {<<>>} \cup {<<g>> : g \in GivenPaths},
        v \in {<<>>} \cup {<<g>> : g \in GivenPaths},
        t \in BOOLEAN,
        i \in {<<>>} \cup {<<l>> : l \in TypedLines},
        d \in Folders }

\* run.py has started and main calls get_data_folder; without terminal nothing
\* is typed
InitFolder ==
    /\ run_env \in {e \in RunEnvs : ~e.isatty => e.input = <<>>}
    /\ data_folder = <<>>
    /\ csv_file = NoFile
    /\ parquet_file = NoFile
    /\ load_pc = "off"
    /\ WIDE_DF = EmptyFrame
    /\ LONG_DF = EmptyFrame
    /\ console = <<>>
    /\ process = "starting"
    /\ files_read = {}
    /\ FoodIdle
    /\ FlightsIdle
    /\ WhoIdle

\* run.py line 58: base = get_data_folder()
GetDataFolder ==
    /\ process = "starting"
    /\ run_env # NoEnv
    /\ data_folder = <<>>
    /\ data_folder' = <<get_data_folder(run_env).folder>>
    /\ console' = console \o get_data_folder(run_env).printed
    /\ UNCHANGED <<csv_file, parquet_file, load_pc, WIDE_DF, LONG_DF, process, files_read,
                   run_env, foodVars, flightsVars, whoVars>>

NextFolder == GetDataFolder

SpecFolder == InitFolder /\ [][NextFolder]_vars

-----------------------------------------------------------------------------
(* Properties of the load (checked under SpecLoad) *)

\* the frame the load has read: the cache when there is one (it is the one the
\* load read, or the one it wrote from the cleaned CSV), else the CSV
SourceFrame == IF parquet_file # NoFile THEN parquet_file[1] ELSE csv_file[1]

Loaded == load_pc = "loaded" /\ (parquet_file # NoFile \/ csv_file # NoFile)

\* a name made of digits only, or of a 'Y' followed by digits only
AllDigits(t) == t # <<>> /\ \A i \in 1..Len(t) : t[i] \in Digits
IsYearName(c) == AllDigits(c) \/ (c # <<>> /\ c[1] = "Y" /\ AllDigits(Tail(c)))
YearDigits(c) == IF c[1] = "Y" THEN Tail(c) ELSE c

\* the text without its blanks
RECURSIVE Unblank(_)
Unblank(t) ==
    IF t = <<>> THEN <<>>
    ELSE IF Head(t) = " " THEN Unblank(Tail(t)) ELSE <<Head(t)>> \o Unblank(Tail(t))

\* an entry of a source table that is a number, and the number it is
IsNumericEntry(c) == c.k = "num" \/ (c.k = "str" /\ AllDigits(Unblank(c.s)))
EntryValue(c) == IF c.k = "num" THEN c.n ELSE IntOfDigits(Unblank(c.s))

\* the year columns of a source table, as a set of positions and in column order
YearPositions(src) == {j \in 1..Len(src.columns) : IsYearName(src.columns[j])}

RECURSIVE SumOver(_, _)
SumOver(S, f) ==
    IF S = {} THEN 0
    ELSE LET x == CHOOSE x \in S : TRUE IN f[x] + SumOver(S \ {x}, f)

\* the long rows that come from source row r (melt labels the rows block by block)
LongRowsOf(r, R) == {i \in 1..Len(LONG_DF.data) : LONG_DF.index[i] % R = r - 1}

LongValue(i) == LONG_DF.data[i][Len(LONG_DF.columns)]
LongYear(i) == LONG_DF.data[i][Len(LONG_DF.columns) - 1]

\* C1: every source row yields one long row per year column whose entry is a
\* number (the others are dropped), and the long Values sum to the numeric
\* entries of the source's year columns.
C1_MeltKeepsRowsAndSum ==
    Loaded =>
        LET src == SourceFrame
            R == Len(src.data)
            ycs == YearPositions(src)
        IN  /\ \A r \in 1..R :
                  Cardinality(LongRowsOf(r, R))
                      = Cardinality({j \in ycs : IsNumericEntry(src.data[r][j])})
            /\ Len(LONG_DF.data)
                  = Cardinality({c \in (1..R) \X ycs : IsNumericEntry(src.data[c[1]][c[2]])})
            /\ SumOver(1..Len(LONG_DF.data), [i \in 1..Len(LONG_DF.data) |-> LongValue(i).n])
                  = SumOver({c \in (1..R) \X ycs : IsNumericEntry(src.data[c[1]][c[2]])},
                            [c \in (1..R) \X ycs |-> EntryValue(src.data[c[1]][c[2]])])

\* a load of two rows and two year columns of which some entries were dropped
\* and a numeric text was kept
C1_Witness ==
    /\ Loaded
    /\ Len(SourceFrame.data) = 2
    /\ Cardinality(YearPositions(SourceFrame)) = 2
    /\ Len(LONG_DF.data) \in 1..3
    /\ \E r \in 1..2 : \E j \in YearPositions(SourceFrame) : SourceFrame.data[r][j].k = "str"
                                    /\ IsNumericEntry(SourceFrame.data[r][j])

\* the source cell a long row comes from
SrcRowOf(i, R) == (LONG_DF.index[i] % R) + 1
SrcColOf(i, src) == SortedInts(YearPositions(src))[(LONG_DF.index[i] \div Len(src.data)) + 1]

\* the identifier columns of the wide frame returned with the long one
WideIdPositions == SortedInts({j \in 1..Len(WIDE_DF.columns) : ~AllDigits(WIDE_DF.columns[j])})

LongRowsCarry(IsYear(_), YearOf(_)) ==
    LET src == SourceFrame
        R == Len(src.data)
        ids == WideIdPositions
    IN  /\ \A i \in 1..Len(LONG_DF.data) :
              /\ LongValue(i).k = "num"
              /\ LongValue(i).n = EntryValue(src.data[SrcRowOf(i, R)][SrcColOf(i, src)])
              /\ LongYear(i) = YearOf(src.columns[SrcColOf(i, src)])
              /\ Len(LONG_DF.columns) = Len(ids) + 2
              /\ \A p \in 1..Len(ids) :
                    /\ LONG_DF.columns[p] = WIDE_DF.columns[ids[p]]
                    /\ LONG_DF.data[i][p] = WIDE_DF.data[SrcRowOf(i, R)][ids[p]]
        /\ R > 0 =>
              \A j \in 1..Len(src.columns) :
                  (WIDE_DF.columns[j] \notin Range(LONG_DF.columns)) <=> IsYear(src.columns[j])

\* C2 as stated: Value is a number, Year the calendar year the column names,
\* the identifiers are those of the wide row, and the year columns are the
\* columns named by the year prefix followed by digits.
C2_Original ==
    Loaded =>
        LongRowsCarry(LAMBDA c : c # <<>> /\ c[1] = "Y" /\ AllDigits(Tail(c)),
                      LAMBDA c : Date(IntOfDigits(YearDigits(c))))

\* C2 amended: the year columns are the all-digit names with or without the
\* prefix, and Year is the calendar year only for four digits that a timestamp
\* can hold (1678..2262); it is missing otherwise.
C2_LongRows ==
    Loaded =>
        LongRowsCarry(IsYearName,
                      LAMBDA c : IF Len(YearDigits(c)) = 4
                                    /\ IntOfDigits(YearDigits(c)) \in 1678..2262
                                 THEN Date(IntOfDigits(YearDigits(c))) ELSE NaT)

\* a long row taken from a column of plain digits, beside an identifier that
\* the cleaning has stripped
C2_Witness ==
    /\ Loaded
    /\ \E i \in 1..Len(LONG_DF.data) :
          /\ SourceFrame.columns[SrcColOf(i, SourceFrame)] = D1999
          /\ LongYear(i) = Date(1999)
          /\ LONG_DF.data[i][1] = Str(<<"B">>)

-----------------------------------------------------------------------------
(* Properties of the food dashboard (checked under SpecFood) *)

\* the figure of an output is the one its handler made for the present store
Rendered(o) == load_pc = "serving" /\ o \notin pending /\ figure[o].kind # "none"

LRows == 1..Len(LONG_DF.data)
LCountry(r) == LONG_DF.data[r][ColPos(LONG_DF, Country)].s
LProduct(r) == LONG_DF.data[r][ColPos(LONG_DF, Product)].s
LYearOf(r) == LONG_DF.data[r][ColPos(LONG_DF, Year)]
LValue(r) == LONG_DF.data[r][ColPos(LONG_DF, Value)].n

SumRows(S) == SumOver(S, [r \in LRows |-> LValue(r)])

\* the three tests of a row against the store
InYears(r) ==
    \/ validated_filters.year_range = <<>>
    \/ /\ LYearOf(r).k = "date"
       /\ validated_filters.year_range[1] <= LYearOf(r).n
       /\ LYearOf(r).n <= validated_filters.year_range[2]
InCountries(r) ==
    validated_filters.countries = <<>> \/ LCountry(r) \in Range(validated_filters.countries)
InProducts(r) ==
    validated_filters.products = <<>> \/ LProduct(r) \in Range(validated_filters.products)

\* a bar chart shows, for each of its groups, the sum of the rows of the group
\* that pass Keep; a group has a bar only if some row of it passes, and every
\* group with such a row has a bar unless the chart is full
BarShows(fig, Key(_), Keep(_), N) ==
    /\ fig.kind \in {"bar", "empty"}
    /\ \A i \in 1..Len(fig.labels) :
          LET rows == {r \in LRows : Key(r) = fig.labels[i] /\ Keep(r)}
          IN  rows # {} /\ fig.values[i] = SumRows(rows)
    /\ \A r \in LRows :
          Keep(r) => \/ Key(r) \in Range(fig.labels)
                     \/ Len(fig.labels) = N

\* a line chart shows, for each (year, country) of its points, the sum of the
\* rows of that year and country that pass Keep, and has a point for every
\* such row unless it shows N countries already
LineShows(fig, Keep(_), N) ==
    /\ fig.kind \in {"line", "empty"}
    /\ \A i \in 1..Len(fig.traces) :
          LET pt == fig.traces[i]
              rows == {r \in LRows : /\ LYearOf(r) = Date(pt.Year)
                                     /\ LCountry(r) = pt.Country
                                     /\ Keep(r)}
          IN  rows # {} /\ pt.Value = SumRows(rows)
    /\ \A r \in LRows :
          Keep(r) => \/ \E i \in 1..Len(fig.traces) :
                            /\ LYearOf(r) = Date(fig.traces[i].Year)
                            /\ LCountry(r) = fig.traces[i].Country
                     \/ Cardinality({fig.traces[i].Country : i \in 1..Len(fig.traces)}) = N

\* a pie chart shows, in the pie of a country, each product with a slice of its
\* own at the sum of the rows of that country and product that pass Keep
PieShows(fig, Keep(_)) ==
    /\ fig.kind \in {"pie", "empty"}
    /\ \A i \in 1..Len(fig.traces) :
          LET t == fig.traces[i]
          IN  \A k \in 1..Len(t.labels) :
                  t.labels[k] # Other =>
                      LET rows == {r \in LRows : /\ LCountry(r) = t.name
                                                 /\ LProduct(r) = t.labels[k]
                                                 /\ Keep(r)}
                      IN  rows # {} /\ t.values[k] = SumRows(rows)

\* C3 as stated: in the four charts a row counts if and only if its year is in
\* the range, its country is among the selected countries (if any) and its
\* product among the selected products (if any).
C3_Original ==
    LET Keep(r) == InYears(r) /\ InCountries(r) /\ InProducts(r)
    IN  /\ Rendered("bar-top-areas") => BarShows(figure["bar-top-areas"], LCountry, Keep, TopAreasN)
        /\ Rendered("bar-top-items") => BarShows(figure["bar-top-items"], LProduct, Keep, TopItemsN)
        /\ Rendered("ts-top-areas") => LineShows(figure["ts-top-areas"], Keep, TimeSeriesDefaultN)
        /\ Rendered("pie-area") => PieShows(figure["pie-area"], Keep)

\* C3: in every chart a row counts only if its year is in the range, both ends
\* included; the country chart also asks for a selected product but not for a
\* selected country, the product chart for a selected country but not for a
\* selected product, the time series for both, the pies for a selected country
\* but not for a selected product.
C3_HandlerFilters ==
    /\ Rendered("bar-top-areas") =>
          BarShows(figure["bar-top-areas"], LCountry,
                   LAMBDA r : InYears(r) /\ InProducts(r), TopAreasN)
    /\ Rendered("bar-top-items") =>
          BarShows(figure["bar-top-items"], LProduct,
                   LAMBDA r : InYears(r) /\ InCountries(r), TopItemsN)
    /\ Rendered("ts-top-areas") =>
          LineShows(figure["ts-top-areas"],
                    LAMBDA r : InYears(r) /\ InCountries(r) /\ InProducts(r), TimeSeriesDefaultN)
    /\ Rendered("pie-area") =>
          PieShows(figure["pie-area"], LAMBDA r : InYears(r) /\ InCountries(r))

\* the four charts are drawn for a store that selects two years of three, one
\* country of two and one product of three, and rows of the other countries
\* and products are in the two bar charts
C3_Witness ==
    /\ pending = {}
    /\ load_pc = "serving"
    /\ validated_filters.year_range = <<2000, 2001>>
    /\ validated_filters.countries = << <<"B">> >>
    /\ validated_filters.products = << <<"P", "3">> >>
    /\ figure["bar-top-areas"].kind = "bar"
    /\ Len(figure["bar-top-items"].labels) = 3
    /\ figure["ts-top-areas"].kind = "line"
    /\ figure["pie-area"].kind = "pie"
    /\ \E r \in LRows : ~InYears(r)
    /\ \E r \in LRows : ~InCountries(r)

\* the products of a country in the year range, and the total of each
PieProducts(c) == {LProduct(r) : r \in {q \in LRows : LCountry(q) = c /\ InYears(q)}}
PieValue(c, p) == SumRows({r \in LRows : LCountry(r) = c /\ LProduct(r) = p /\ InYears(r)})
PiePositive(c) == {p \in PieProducts(c) : PieValue(c, p) > 0}
SumValues(c, P) == SumOver(P, [p \in P |-> PieValue(c, p)])

PieDrawn == Rendered("pie-area") /\ figure["pie-area"].kind = "pie"
PieOf(i) == figure["pie-area"].traces[i]
OtherAt(t) == {k \in 1..Len(t.labels) : t.labels[k] = Other}
NamedAt(t) == {k \in 1..Len(t.labels) : t.labels[k] # Other}

\* C7 as stated: the slices of a country's pie, "Other" included, sum to all
\* the values of that country in the year range.
C7_Original ==
    PieDrawn =>
        \A i \in 1..Len(figure["pie-area"].traces) :
            SumSeq(PieOf(i).values) = SumValues(PieOf(i).name, PieProducts(PieOf(i).name))

\* C7: the slices of a country's pie, "Other" included, sum to the totals of
\* the products of that country whose total in the year range is above zero.
C7_PieSumsPositiveTotals ==
    PieDrawn =>
        \A i \in 1..Len(figure["pie-area"].traces) :
            /\ SumSeq(PieOf(i).values) = SumValues(PieOf(i).name, PiePositive(PieOf(i).name))
            /\ PiePositive(PieOf(i).name) # {}

\* a pie with an "Other" slice for a country of which one product has a
\* negative total in the range
C7_Witness ==
    /\ PieDrawn
    /\ \E i \in 1..Len(figure["pie-area"].traces) :
          /\ OtherAt(PieOf(i)) # {}
          /\ \E p \in PieProducts(PieOf(i).name) : PieValue(PieOf(i).name, p) < 0

\* C8 as stated: a product is in "Other" if and only if its value is under 3%
\* of the country's total, "Other" is the sum of those products, the others
\* have a slice each, in descending order, and "Other" is there at most once.
C8_Original ==
    PieDrawn =>
        \A i \in 1..Len(figure["pie-area"].traces) :
            LET t == PieOf(i)
                c == t.name
                total == SumValues(c, PieProducts(c))
                small == {p \in PieProducts(c) : PieValue(c, p) * 100 < total * 3}
            IN  /\ {t.labels[k] : k \in NamedAt(t)} = PieProducts(c) \ small
                /\ \A k \in NamedAt(t) : t.values[k] = PieValue(c, t.labels[k])
                /\ SumOver(OtherAt(t), [k \in OtherAt(t) |-> t.values[k]]) = SumValues(c, small)
                /\ Cardinality(OtherAt(t)) <= 1
                /\ \A k, l \in NamedAt(t) : k < l => t.values[k] >= t.values[l]

\* C8: among the products of a country whose total in the year range is above
\* zero, and with the country's total taken over those products only, a product
\* is in "Other" if and only if its total is strictly under 3% of the country's
\* total; a product at 3% or more has a slice of its own; "Other" is the sum of
\* the products in it, is there if and only if some product is in it, at most
\* once and after the other slices, which are in descending order.  A product
\* whose total is zero or negative is in no slice.
C8_PieBuckets ==
    PieDrawn =>
        \A i \in 1..Len(figure["pie-area"].traces) :
            LET t == PieOf(i)
                c == t.name
                total == SumValues(c, PiePositive(c))
                small == {p \in PiePositive(c) : PieValue(c, p) * 100 < total * 3}
            IN  /\ {t.labels[k] : k \in NamedAt(t)} = PiePositive(c) \ small
                /\ Cardinality(NamedAt(t)) = Cardinality(PiePositive(c) \ small)
                /\ \A k \in NamedAt(t) : t.values[k] = PieValue(c, t.labels[k])
                /\ OtherAt(t) = IF small = {} THEN {} ELSE {Len(t.labels)}
                /\ \A k \in OtherAt(t) : t.values[k] = SumValues(c, small)
                /\ \A k, l \in NamedAt(t) : k < l => t.values[k] >= t.values[l]

\* a pie with a product at exactly 3% of the total in a slice of its own, a
\* product under 3% in "Other" and a product over 3%
C8_Witness ==
    /\ PieDrawn
    /\ \E i \in 1..Len(figure["pie-area"].traces) :
          LET t == PieOf(i)
              total == SumValues(t.name, PiePositive(t.name))
          IN  /\ OtherAt(t) # {}
              /\ \E k \in NamedAt(t) : t.values[k] * 100 = total * 3
              /\ \E k \in NamedAt(t) : t.values[k] * 100 > total * 3

-----------------------------------------------------------------------------
(* Properties of the rankings (checked under SpecRankings) *)

MinOf(S) == CHOOSE x \in S : \A y \in S : x <= y

\* the groups of the long table among the rows that pass Keep: the total of
\* each and its first row
FoodGroups(Key(_), Keep(_)) ==
    { [key |-> k,
       num |-> SumRows({r \in LRows : Key(r) = k /\ Keep(r)}),
       den |-> 1,
       first |-> MinOf({r \in LRows : Key(r) = k /\ Keep(r)})]
      : k \in {Key(r) : r \in {q \in LRows : Keep(q)}} }

\* the flights that pass the filters of the dashboard
FRows == 1..Len(flights_df.data)
FAirlineCol == IF HasCol(flights_df, AIRLINE_NAME) THEN AIRLINE_NAME ELSE AIRLINE
FAirportCol == IF HasCol(flights_df, ORIGIN_NAME) THEN ORIGIN_NAME ELSE ORIGIN_AIRPORT
FDay(r) == Cell(flights_df, r, DATE).n
FSelected(r) ==
    /\ airline_filter # <<>> => Cell(flights_df, r, FAirlineCol) = Str(airline_filter[1])
    /\ date_range[1] # <<>> => FDay(r) >= date_range[1][1]
    /\ date_range[2] # <<>> => FDay(r) <= date_range[2][1]

\* the groups of the selected flights by the names of a column, with the mean
\* delay of each, and the first of its flights that has a delay
FlightsGroups(col) ==
    LET named(k) == {r \in FRows : FSelected(r) /\ Cell(flights_df, r, col) = Str(k)}
        timed(k) == {r \in named(k) : Cell(flights_df, r, ARRIVAL_DELAY).k = "num"}
    IN  { [key |-> k,
           num |-> SumOver(timed(k), [r \in FRows |-> Cell(flights_df, r, ARRIVAL_DELAY).n]),
           den |-> Cardinality(timed(k)),
           first |-> IF timed(k) = {} THEN MinOf(named(k)) ELSE MinOf(timed(k))]
          : k \in {Cell(flights_df, r, col).s
                   : r \in {q \in FRows : FSelected(q) /\ Cell(flights_df, q, col).k = "str"}} }

Ranking(id, fig, n, groups, food) ==
    [id |-> id, labels |-> fig.labels,
     values |-> [i \in 1..Len(fig.values) |->
                    IF food THEN [num |-> fig.values[i], den |-> 1] ELSE fig.values[i]],
     n |-> n, groups |-> groups, food |-> food]

\* the rankings on display that belong to the present inputs
Rankings ==
    (IF Rendered("bar-top-areas") /\ figure["bar-top-areas"].kind = "bar"
     THEN {Ranking("bar-top-areas", figure["bar-top-areas"], TopAreasN,
                   FoodGroups(LCountry, LAMBDA r : InYears(r) /\ InProducts(r)), TRUE)}
     ELSE {})
    \cup
    (IF Rendered("bar-top-items") /\ figure["bar-top-items"].kind = "bar"
     THEN {Ranking("bar-top-items", figure["bar-top-items"], TopItemsN,
                   FoodGroups(LProduct, LAMBDA r : InYears(r) /\ InCountries(r)), TRUE)}
     ELSE {})
    \cup
    (IF flights_error = "" /\ flights_out.airline_delay.kind = "bar"
     THEN {Ranking("airline_delay", flights_out.airline_delay, TopAirlinesN,
                   FlightsGroups(FAirlineCol), FALSE)}
     ELSE {})
    \cup
    (IF flights_error = "" /\ flights_out.top_airports.kind = "bar"
     THEN {Ranking("top_airports", flights_out.top_airports, TopAirportsN,
                   FlightsGroups(FAirportCol), FALSE)}
     ELSE {})

Entries(R) == 1..Len(R.labels)
HasMean(v) == v.den > 0
MeanEq(x, y) == x.num * y.den = y.num * x.den
\* the groups that have an aggregate, and the group of an entry
Aggregated(R) == {g \in R.groups : HasMean(g)}
LeftOut(R) == {g \in Aggregated(R) : g.key \notin Range(R.labels)}
GroupOf(R, i) == CHOOSE g \in R.groups : g.key = R.labels[i]

\* C4: a ranking has at most N entries, and no entry comes after one with a
\* smaller aggregate (an entry without an aggregate, the mean of no delay,
\* comes after all those that have one).
C4_TopNSorted ==
    \A R \in Rankings :
        /\ Len(R.labels) <= R.n
        /\ Len(R.values) = Len(R.labels)
        /\ \A i, j \in Entries(R) :
              i < j => /\ HasMean(R.values[j]) => HasMean(R.values[i])
                       /\ HasMean(R.values[j]) => MeanGE(R.values[i], R.values[j])

\* a full ranking, cut from more groups than it shows, with unequal aggregates
C4_Witness ==
    \E R \in Rankings : /\ Len(R.labels) = R.n
                        /\ Cardinality(R.groups) > R.n
                        /\ ~MeanEq(R.values[1], R.values[R.n])

\* C5: the entries of a ranking are groups of the filtered data, each once and
\* with its aggregate; no group left out has a strictly larger aggregate than
\* an entry; of more than N groups with an aggregate exactly N are entries, and
\* of N or fewer every one is an entry.
C5_TopNLargest ==
    \A R \in Rankings :
        /\ \A i \in Entries(R) :
              /\ \E g \in R.groups : g.key = R.labels[i]
              /\ R.values[i].den = GroupOf(R, i).den
              /\ HasMean(R.values[i]) => MeanEq(R.values[i], GroupOf(R, i))
        /\ \A i, j \in Entries(R) : i # j => R.labels[i] # R.labels[j]
        /\ \A g \in LeftOut(R) : \A i \in Entries(R) :
              HasMean(R.values[i]) /\ MeanGE(R.values[i], g)
        /\ IF Cardinality(Aggregated(R)) >= R.n
           THEN Len(R.labels) = R.n
           ELSE LeftOut(R) = {}

\* a ranking that leaves out a group smaller than all its entries
C5_Witness ==
    \E R \in Rankings :
        /\ Len(R.labels) = R.n
        /\ \E g \in LeftOut(R) : ~MeanGE(g, R.values[R.n])

\* the first row of an entry comes before the first row of another group
FirstRowBefore(R, i, g) == GroupOf(R, i).first < g.first

\* C6 as stated: of two groups with equal aggregates, the one whose first row
\* comes earlier in the dataset is ranked first, and is the one kept at the
\* cut-off.
C6_Original ==
    \A R \in Rankings :
        /\ \A i, j \in Entries(R) :
              i < j /\ HasMean(R.values[i]) /\ MeanEq(R.values[i], R.values[j])
                  => FirstRowBefore(R, i, GroupOf(R, j))
        /\ \A g \in LeftOut(R) : \A i \in Entries(R) :
              HasMean(R.values[i]) /\ MeanEq(R.values[i], g) => FirstRowBefore(R, i, g)

\* C6: in a food ranking taken from more groups than it shows, of two groups
\* with equal totals the one whose name sorts first is ranked first, and is the
\* one kept at the cut-off, wherever their rows are in the dataset.  (In a
\* ranking that shows every group, and in the flights rankings, the order of
\* equal groups is not set by the code.)
C6_TiesByName ==
    \A R \in Rankings :
        R.food /\ Cardinality(R.groups) > R.n =>
            /\ \A i, j \in Entries(R) :
                  i < j /\ MeanEq(R.values[i], R.values[j]) => TextLess(R.labels[i], R.labels[j])
            /\ \A g \in LeftOut(R) : \A i \in Entries(R) :
                  MeanEq(R.values[i], g) => TextLess(R.labels[i], g.key)

\* a food ranking of ten countries out of more, all with the same total, that
\* leaves out the country of the first row of the dataset
C6_Witness ==
    \E R \in Rankings :
        /\ R.id = "bar-top-areas"
        /\ Len(R.labels) = R.n
        /\ \E g \in LeftOut(R) : g.first = 1 /\ MeanEq(g, R.values[R.n])

-----------------------------------------------------------------------------
(* Properties of the WHO dashboards (checked under SpecWHO) *)

\* output o shows the result of its callback for the present dropdown values
WhoShown(o) == who_app # "" /\ o \notin who_pending /\ who_out[o].kind # "none"

WRows == 1..Len(who_df.data)
WColumn(name) == CHOOSE j \in 1..Len(who_df.columns) : who_df.columns[j] = name
WCountry(r) == who_df.data[r][WColumn(c_country)].s
WYear(r) == who_df.data[r][WColumn(c_year)].n
WIsNumeric(j) == \A r \in WRows : who_df.data[r][j].k # "str"
WNumericNames == {who_df.columns[j] : j \in {i \in 1..Len(who_df.columns) : WIsNumeric(i)}}
WNumbers(rows, j) == {r \in rows : who_df.data[r][j].k = "num"}

RECURSIVE WSum(_, _)
WSum(rows, j) ==
    IF rows = {} THEN 0
    ELSE LET r == CHOOSE x \in rows : TRUE
         IN  who_df.data[r][j].n + WSum(rows \ {r}, j)

\* the rows of every year that the country selection keeps
AllYearsRows(country) == {r \in WRows : country = World \/ WCountry(r) = country}

\* m is the mean of column j over the numbers of rows
IsMeanOf(m, rows, j) ==
    /\ m.den = Cardinality(WNumbers(rows, j))
    /\ m.num = WSum(WNumbers(rows, j), j)

\* t is the text of the mean of column j over rows: the nearest hundredth,
\* or a text that says there is none
IsMeanTextOf(t, rows, j) ==
    LET den == Cardinality(WNumbers(rows, j))
        num == WSum(WNumbers(rows, j), j)
    IN  IF den = 0 THEN t.k = "text"
        ELSE /\ t.k = "fixed2"
             /\ 2 * (t.n * den - 100 * num) <= den
             /\ 2 * (100 * num - t.n * den) <= den

\* C9: when the year dropdown holds 1999, the map shows for each country of
\* the data the mean of the indicator over that country's rows of all years,
\* the profile shows the means over all rows of all years (of the selected
\* country, or of the world), and the table holds all rows of all years (of
\* the selected country, or all): no row is left out for its year
C9_SentinelAggregates ==
    who_app # "" /\ year_dropdown = 1999 =>
        /\ WhoShown("global-graph") /\ WIsNumeric(WColumn(indicator_dropdown)) =>
              LET g == who_out["global-graph"]
                  j == WColumn(indicator_dropdown)
              IN  /\ g.kind = "choropleth"
                  /\ {g.entries[i].country : i \in 1..Len(g.entries)} = {WCountry(r) : r \in WRows}
                  /\ Len(g.entries) = Cardinality({WCountry(r) : r \in WRows})
                  /\ \A i \in 1..Len(g.entries) :
                        IsMeanOf(g.entries[i].value, AllYearsRows(g.entries[i].country), j)
        /\ WhoShown("country-profile") =>
              LET p == who_out["country-profile"]
                  rows == AllYearsRows(country_dropdown)
                  averaged == WNumericNames \ {c_year}
              IN  /\ p.kind \in {"profile", "nodata"}
                  /\ p.kind = "nodata" =>
                        \A name \in averaged : WNumbers(rows, WColumn(name)) = {}
                  /\ p.kind = "profile" =>
                        /\ {p.lines[i].col : i \in 1..Len(p.lines)} = averaged
                        /\ \A i \in 1..Len(p.lines) :
                              IsMeanTextOf(p.lines[i].text, rows, WColumn(p.lines[i].col))
        /\ WhoShown("data-table") =>
              who_out["data-table"].rows =
                  SelectSeq(who_df.data,
                            LAMBDA row : \/ country_dropdown = World
                                         \/ row[WColumn(c_country)].s = country_dropdown)

\* 1999 is selected for a country that has a row of 1999 and a row of another
\* year, and the map, the profile and the table are shown
C9_Witness ==
    /\ who_app # "" /\ year_dropdown = 1999 /\ who_pending = {}
    /\ country_dropdown # World
    /\ \E r, q \in AllYearsRows(country_dropdown) : WYear(r) = 1999 /\ WYear(q) # 1999
    /\ who_out["global-graph"].kind = "choropleth"
    /\ \E i \in 1..Len(who_out["global-graph"].entries) :
          who_out["global-graph"].entries[i].value.den = 2
    /\ who_out["country-profile"].kind = "profile"
    /\ Len(who_out["data-table"].rows) = 2

\* C10: for a numeric indicator, the correlation chart and the factors chart
\* list every numeric column but the indicator once, each with its
\* correlation with the indicator, and the correlations do not increase down
\* the list (a correlation that is missing comes after all others)
C10_CorrelationList ==
    \A o \in {"correlation-graph", "factors-list-graph"} :
        WhoShown(o) /\ WIsNumeric(WColumn(indicator_dropdown)) =>
            LET f == who_out[o]
                others == WNumericNames \ {indicator_dropdown}
            IN  /\ f.kind = "bar"
                /\ Range(f.labels) = others
                /\ Len(f.labels) = Cardinality(others)
                /\ indicator_dropdown \notin Range(f.labels)
                /\ \A i \in 1..Len(f.labels) :
                      f.values[i] = corr(who_df, WColumn(f.labels[i]), WColumn(indicator_dropdown))
                /\ \A i, j \in 1..Len(f.values) :
                      i < j /\ ~f.values[j].nan =>
                          ~f.values[i].nan /\ CorrGE(f.values[i], f.values[j])

\* both charts are shown for IDH, with at least three columns, one
\* correlation strictly above another
C10_Witness ==
    /\ who_app # "" /\ who_pending = {}
    /\ indicator_dropdown = c_IDH
    /\ \A o \in {"correlation-graph", "factors-list-graph"} :
          /\ who_out[o].kind = "bar"
          /\ Len(who_out[o].labels) >= 3
          /\ \E i, j \in 1..Len(who_out[o].values) :
                /\ i < j
                /\ ~who_out[o].values[j].nan
                /\ ~CorrGE(who_out[o].values[j], who_out[o].values[i])

\* C11: when the selected indicator is not a numeric column, the map (for
\* any year), the correlation chart and the factors chart each show a
\* placeholder with an explanatory title, not a computed chart
C11_NonNumericPlaceholder ==
    \A o \in {"global-graph", "correlation-graph", "factors-list-graph"} :
        WhoShown(o) /\ ~WIsNumeric(WColumn(indicator_dropdown)) =>
            who_out[o].kind = "empty" /\ who_out[o].title # ""

-----------------------------------------------------------------------------
(* The food dashboard without matching rows (checked under SpecFood) *)

\* the rows that pass the filters the handler of output o applies
RowsLeftFor(o) ==
    {r \in LRows :
        /\ InYears(r)
        /\ o \in {"bar-top-areas", "ts-top-areas"} => InProducts(r)
        /\ o \in {"bar-top-items", "ts-top-areas", "pie-area"} => InCountries(r)}

NoDataTitles == {"No data for selected filters", "No data available"}

\* C12: when the validated filters leave a chart's handler no row, the chart
\* is a placeholder without traces whose title says that there is no data,
\* and the handler did not raise
C12_EmptyPlaceholder ==
    \A o \in ChartOutputs :
        Rendered(o) /\ RowsLeftFor(o) = {} =>
            figure[o].kind = "empty" /\ figure[o].title \in NoDataTitles

-----------------------------------------------------------------------------
(* The flights dashboards without matching rows (checked under SpecFlights) *)

\* the callback has run on the current filters
FlightsRan == flights_app \in FlightsApps /\ (flights_error # "" \/ flights_out # NoFlightsOutputs)

\* the table has the columns the figures are built from
FlightsComplete ==
    /\ HasCol(flights_df, DATE)
    /\ HasCol(flights_df, ARRIVAL_DELAY)
    /\ HasCol(flights_df, AIRLINE_NAME) \/ HasCol(flights_df, AIRLINE)
    /\ HasCol(flights_df, ORIGIN_NAME) \/ HasCol(flights_df, ORIGIN_AIRPORT)

FAirline(r) ==
    Cell(flights_df, r, IF HasCol(flights_df, AIRLINE_NAME) THEN AIRLINE_NAME ELSE AIRLINE)
FDate(r) == Cell(flights_df, r, DATE)

\* the flights of the chosen airline inside the chosen period
SelectedFlights ==
    {r \in 1..Len(flights_df.data) :
        /\ airline_filter # <<>> => FAirline(r) = Str(airline_filter[1])
        /\ date_range[1] # <<>> => FDate(r).k = "date" /\ FDate(r).n >= date_range[1][1]
        /\ date_range[2] # <<>> => FDate(r).k = "date" /\ FDate(r).n <= date_range[2][1]}

\* the figures of the dashboard: six, or three in dashboard/callbacks.py
FlightsFigures ==
    IF flights_app = "dashboard" THEN {"day_delay", "airline_delay", "time_series"}
    ELSE {"day_delay", "airline_delay", "time_series", "causes", "dist_delay", "top_airports"}

NotAvailable == {"NA", "N/A"}

\* C13: in each flights dashboard, when the filters select no row of a table
\* with all its columns, the callback does not raise, every figure is a
\* placeholder with a title and the mean KPI shows not-available
C13_ZeroRowsPlaceholders ==
    FlightsRan /\ FlightsComplete /\ SelectedFlights = {} =>
        /\ flights_error = ""
        /\ \A o \in FlightsFigures : flights_out[o].kind = "empty" /\ flights_out[o].title # ""
        /\ flights_out.kpis.avg.text \in NotAvailable

-----------------------------------------------------------------------------
(* The dashboards on a table that lacks a column (checked under SpecColumns) *)

\* the columns a food chart is computed from: the one it groups by, the one
\* it filters on when a selection is made; the pies need both
FoodNeeds(o) ==
    (IF o \in {"bar-top-areas", "ts-top-areas", "pie-area"} \/ validated_filters.countries # <<>>
     THEN {Country} ELSE {})
    \cup (IF o \in {"bar-top-items", "pie-area"} \/ validated_filters.products # <<>>
          THEN {Product} ELSE {})

\* the columns a flights figure is computed from, each under its two names
FlightsNeeds(o) ==
    CASE o = "day_delay" -> {{DATE, DAY_NAME}, {ARRIVAL_DELAY}}
      [] o = "airline_delay" -> {{AIRLINE_NAME, AIRLINE}, {ARRIVAL_DELAY}}
      [] o = "time_series" -> {{DATE}, {ARRIVAL_DELAY}}
      [] o = "causes" -> {}
      [] o = "dist_delay" -> {{ARRIVAL_DELAY}}
      [] o = "top_airports" -> {{ORIGIN_NAME, ORIGIN_AIRPORT}, {ARRIVAL_DELAY}}

FlightsLacks(o) == \E names \in FlightsNeeds(o) : \A c \in names : ~HasCol(flights_df, c)

\* C14: a handler whose table lacks a column it is computed from does not
\* raise and shows a placeholder with a title, whatever the filters
C14_MissingColumnPlaceholder ==
    /\ \A o \in ChartOutputs :
          Rendered(o) /\ (\E c \in FoodNeeds(o) : ~HasCol(df_from_store(df_long_store), c)) =>
              figure[o].kind = "empty" /\ figure[o].title # ""
    /\ \A o \in FlightsFigures :
          FlightsRan /\ FlightsLacks(o) =>
              flights_error = "" /\ flights_out[o].kind = "empty" /\ flights_out[o].title # ""

-----------------------------------------------------------------------------
(* The start without data file (checked under SpecStartup) *)

Started == process # "starting"

\* no file holds the data of the dashboard
MissingFile == csv_file = NoFile /\ parquet_file = NoFile

\* C15: a dashboard started without its data file runs, has reported the file
\* once and holds an empty or dummy dataset
C15_MissingFileStartup ==
    Started /\ MissingFile =>
        /\ process = "running"
        /\ Len(console) = 1
        /\ load_pc = "loaded" => empty(WIDE_DF) /\ empty(LONG_DF)
        /\ who_app # "" => who_df = who_load_data(DummyFrame)
        /\ flights_app # "" => empty(flights_df)

-----------------------------------------------------------------------------
(* The cache of the food load (checked under SpecLoad) *)

LoadStep == load_pc = "import" /\ load_pc' = "loaded"

\* C16: load_prepare_data reads the cache alone when there is one; without
\* cache it reads the CSV, cleans it and leaves the cleaned table in the cache,
\* or leaves no cache when the write fails, and returns the frames either way
C16_CachePreferred ==
    [][LoadStep =>
        /\ parquet_file # NoFile =>
              /\ files_read' = {"parquet"}
              /\ <<WIDE_DF', LONG_DF'>> = PrepareFrames(parquet_file[1])
              /\ parquet_file' = parquet_file
        /\ parquet_file = NoFile /\ csv_file # NoFile =>
              /\ files_read' = {"csv"}
              /\ <<WIDE_DF', LONG_DF'>> = PrepareFrames(light_clean(csv_file[1]))
              /\ parquet_file' \in {NoFile, <<light_clean(csv_file[1])>>}]_vars

\* the load has read a cache that is not what the CSV would give
C16_Witness ==
    /\ load_pc = "loaded"
    /\ files_read = {"parquet"}
    /\ csv_file # NoFile
    /\ PrepareFrames(light_clean(csv_file[1])) # <<WIDE_DF, LONG_DF>>

-----------------------------------------------------------------------------
(* The loaded datasets under the callbacks (checked under SpecServing) *)

\* C17: no step of a served dashboard changes a loaded dataset: the food
\* frames and their store, the flights frame, the WHO frame
C17_DatasetUnchanged ==
    [][/\ WIDE_DF' = WIDE_DF
       /\ LONG_DF' = LONG_DF
       /\ df_long_store' = df_long_store
       /\ flights_df' = flights_df
       /\ who_df' = who_df]_vars

\* the callback of dashboard/callbacks.py has run without filter, so that
\* make_day_fig wrote the day names into the copy of the frame
C17_Witness ==
    /\ flights_app = "dashboard"
    /\ FlightsRan
    /\ airline_filter = <<>> /\ date_range = <<<<>>, <<>>>>
    /\ day_writes(flights_df) # flights_df

-----------------------------------------------------------------------------
(* What the outputs are computed from (checked under SpecServing) *)

\* the results of the callback of a food chart on a store of filters
FoodHandler(o, filters) ==
    CASE o = "bar-top-areas" -> update_top_areas(filters, df_long_store)
      [] o = "bar-top-items" -> update_top_items(filters, df_long_store)
      [] o = "ts-top-areas" -> update_time_series(filters, df_long_store)
      [] o = "pie-area" -> update_pie(filters, df_long_store)

\* the filters that the three controls show
ShownFilters ==
    update_validated_filters(food_controls.countries, food_controls.products,
                             food_controls.year_range)

\* the results of the flights callback on the values of its controls
FlightsResults(airline, range) ==
    IF flights_app = "dashboard"
    THEN dashboard_update(flights_df, airline, range[1], range[2])
    ELSE update(flights_app, flights_df, airline, range[1], range[2])

\* the results of the callback of a WHO output on the values of its controls
WhoHandler(o, indicator, year, country) ==
    CASE o = "global-graph" -> {update_global_graph(who_app, who_df, indicator, year)}
      [] o = "country-profile" -> {update_country_profile(who_app, who_df, country, year)}
      [] o = "correlation-graph" -> update_correlation_graph(who_df, indicator, <<>>)
      [] o = "factors-list-graph" -> update_factors_list_graph(who_df, indicator)
      [] o = "factor-details" -> {update_factor_details(indicator)}
      [] o = "data-table" -> {update_data_table(who_df, country, year)}

FoodSettled == load_pc = "serving" /\ pending = {}
WhoSettled == who_app # "" /\ who_pending = {}

\* the claim as it is written: when the callbacks of an event have run, each
\* output is a result of its handler on the values the controls have
C18_Original ==
    /\ FoodSettled =>
          \A o \in ChartOutputs : figure[o] \in FoodHandler(o, ShownFilters)
    /\ FlightsRan /\ flights_error = "" =>
          \E res \in FlightsResults(airline_filter, date_range) :
              res.raised = "" /\ flights_out = res.out
    /\ WhoSettled =>
          \A o \in WhoOutputs :
              who_out[o] \in WhoHandler(o, indicator_dropdown, year_dropdown, country_dropdown)

\* C18: the outputs are computed from the dataset and, in the food dashboard,
\* from the filters stored at the last click on Apply: a change of a food
\* control alone recomputes nothing, a click stores the values the controls
\* have and recomputes the four charts from the store.  In the flights and WHO
\* dashboards every change of a control runs the handlers on the values the
\* controls then have; an output whose handler raised keeps its value.
C18_OutputsFromInputs ==
    [][/\ food_controls' # food_controls =>
             UNCHANGED <<validated_filters, pending, figure>>
       /\ FoodSettled /\ pending' # {} =>
             /\ validated_filters' = ShownFilters
             /\ pending' = ChartOutputs
       /\ validated_filters' # validated_filters => FoodSettled /\ pending' # {}
       /\ \A o \in ChartOutputs : figure'[o] # figure[o] => o \in pending /\ o \notin pending'
       /\ pending # {} /\ FoodSettled' =>
             \A o \in ChartOutputs : figure'[o] \in FoodHandler(o, validated_filters')
       /\ flights_app \in FlightsApps /\ <<airline_filter, date_range, flights_out, flights_error>>' #
                                         <<airline_filter, date_range, flights_out, flights_error>> =>
             \E res \in FlightsResults(airline_filter', date_range') :
                 /\ flights_error' = res.raised
                 /\ flights_out' = IF res.raised = "" THEN res.out ELSE flights_out
       /\ <<indicator_dropdown, year_dropdown, country_dropdown>>' #
             <<indicator_dropdown, year_dropdown, country_dropdown>> => who_pending' # {}
       /\ \A o \in WhoOutputs :
             who_out'[o] # who_out[o] => o \in who_pending /\ o \notin who_pending'
       /\ who_pending # {} /\ WhoSettled' =>
             \A o \in WhoOutputs :
                 who_out'[o] \in WhoHandler(o, indicator_dropdown', year_dropdown',
                                            country_dropdown')]_vars

\* the controls of the food dashboard were changed after the last click on
\* Apply, and a chart is not what its handler gives on the values they show
C18_Witness ==
    /\ FoodSettled
    /\ ShownFilters # validated_filters
    /\ \A o \in ChartOutputs : figure[o].kind \notin {"none", "raise"}
    /\ \E o \in ChartOutputs : figure[o] \notin FoodHandler(o, ShownFilters)

-----------------------------------------------------------------------------
(* The handlers that one event triggers, run in any order (checked under
   SpecServing, where the handlers that wait run one at a time in every
   order) *)

\* C19: whichever of the triggered handlers have run and whichever still
\* wait, an output whose handler has run is a result of that handler on its
\* declared inputs and the dataset alone; so the outputs are the same at the
\* end for every order in which the handlers run
C19_OrderIndependent ==
    /\ load_pc = "serving" =>
          \A o \in ChartOutputs \ pending : figure[o] \in FoodHandler(o, validated_filters)
    /\ who_app # "" =>
          \A o \in WhoOutputs \ who_pending :
              who_out[o] \in WhoHandler(o, indicator_dropdown, year_dropdown, country_dropdown)

\* some of the handlers triggered by one event have run and others wait,
\* their outputs still those of the inputs before the event
C19_Witness ==
    /\ load_pc = "serving"
    /\ \E o \in ChartOutputs \ pending : figure[o].kind \notin {"none", "raise"}
    /\ \E q \in pending :
          figure[q].kind # "none" /\ figure[q] \notin FoodHandler(q, validated_filters)

-----------------------------------------------------------------------------
(* The data folder of run.py (checked under SpecFolder) *)

\* the four sources in the order of their priority, each <<>> or <<a path>>:
\* the argument, DATA_FOLDER, the line typed at the prompt of a terminal
\* without the blanks around it, the default
Sources ==
    << run_env.argv,
       run_env.environ,
       IF run_env.isatty /\ run_env.input # <<>> THEN <<strip(run_env.input[1])>> ELSE <<>>,
       <<DEFAULT_DATA_FOLDER>> >>

\* the sources that name a folder that exists
Existing == {i \in 1..4 : Sources[i] # <<>> /\ FolderOf(run_env.dirs, Sources[i][1]) # <<>>}
FirstExisting == CHOOSE i \in Existing : \A j \in Existing : i <= j

\* C20: get_data_folder returns, without raising, an absolute path; when a
\* source names a folder that exists, the path is that of the first such
\* source in the order argument, DATA_FOLDER, prompt, default, made absolute,
\* and it names the same folder
C20_FolderPriority ==
    data_folder # <<>> =>
        /\ process # "raised"
        /\ isabs(data_folder[1])
        /\ Existing # {} =>
              /\ data_folder[1] = abspath(Sources[FirstExisting][1])
              /\ FolderOf(run_env.dirs, data_folder[1]) =
                     FolderOf(run_env.dirs, Sources[FirstExisting][1])

\* the argument names no folder, DATA_FOLDER is a relative path of a folder
\* that exists and is returned as another text, with one warning printed
C20_Witness ==
    /\ data_folder # <<>>
    /\ run_env.argv = << <<"x">> >>
    /\ Existing # {} /\ FirstExisting = 2
    /\ data_folder[1] # run_env.environ[1]
    /\ Len(console) = 1

-----------------------------------------------------------------------------
(* The store of validated filters (checked under SpecFood) *)

\* the list a control gives: its value, the empty list for None
ListOf(control) == IF control = <<>> THEN <<>> ELSE control[1]

ControlLists ==
    [countries |-> ListOf(food_controls.countries),
     products |-> ListOf(food_controls.products),
     year_range |-> ListOf(food_controls.year_range)]

\* Apply is clicked: the callbacks of the store are set to run
ApplyClicked == load_pc = "serving" /\ pending = {} /\ pending' # {}

\* C21: the store starts as the lists of the initial control values; a click
\* on Apply stores the lists of the values the controls have at the click
\* (the empty list for None) and no other step changes the store; an edit of a
\* control changes neither the store nor a chart
C21_StoreIsLastApplied ==
    /\ load_pc = "serving" => validated_filters = ControlLists
    /\ [][/\ ApplyClicked => validated_filters' = ControlLists
          /\ ~ApplyClicked => validated_filters' = validated_filters
          /\ food_controls' # food_controls =>
                validated_filters' = validated_filters /\ figure' = figure]_vars

\* Apply was clicked with the year range None, stored as the empty list, and
\* the year range was edited since without a click
C21_Witness ==
    /\ load_pc = "serving"
    /\ pending = {}
    /\ validated_filters.year_range = <<>>
    /\ food_controls.year_range # <<>>
    /\ \A o \in ChartOutputs : figure[o].kind # "none"

-----------------------------------------------------------------------------
(* The rows of the WHO data table (checked under SpecWHO) *)

\* the row is one that the selected country and year ask for
Asked(row) ==
    /\ country_dropdown = World \/ row[ColPos(who_df, c_country)] = Str(country_dropdown)
    /\ year_dropdown = 1999 \/ row[ColPos(who_df, c_year)] = Num(year_dropdown)

\* C22: the data table holds the rows of the dataset, in its order, whose
\* country is the selected one (all with 'World') and whose year is the
\* selected one (all with 1999); no row gives the empty list, never an error
C22_TableRows ==
    who_app # "" /\ "data-table" \notin who_pending =>
        /\ who_out["data-table"].kind = "records"
        /\ who_out["data-table"].rows = SelectSeq(who_df.data, Asked)

\* one country and one year are selected and no row is of both
C22_Witness ==
    /\ who_app # "" /\ "data-table" \notin who_pending
    /\ country_dropdown # World /\ year_dropdown # 1999
    /\ who_out["data-table"].rows = <<>>
    /\ \E i \in 1..Len(who_df.data) : who_df.data[i][ColPos(who_df, c_country)] = Str(country_dropdown)
    /\ \E i \in 1..Len(who_df.data) : who_df.data[i][ColPos(who_df, c_year)] = Num(year_dropdown)

-----------------------------------------------------------------------------
(* The lists and first values of the WHO layout (checked under SpecWhoLayout) *)

\* the page is loaded and no callback has run: the controls have the values
\* of the layout
LayoutValues == who_app # "" /\ who_pending = WhoOutputs /\ who_out["global-graph"].kind = "none"

DataYears == {c.n : c \in Range(Col(who_df, c_year))}

\* C23: the year the layout selects is the latest year of the dataset and is
\* not the sentinel 1999
C23_InitialYear ==
    LayoutValues =>
        /\ year_dropdown \in DataYears
        /\ \A y \in DataYears : y <= year_dropdown
        /\ year_dropdown # 1999

\* how often v is in the list
Count(list, v) == Cardinality({i \in 1..Len(list) : list[i] = v})

\* C24: the years offered are in ascending order with 1999 once among them,
\* and the countries offered have 'World' once
C24_OptionLists ==
    who_app # "" =>
        LET years == who_years(who_df)
            countries == who_countries(who_df)
        IN  /\ \A i \in 1..(Len(years) - 1) : years[i] < years[i + 1]
            /\ Count(years, 1999) = 1
            /\ Count(countries, World) = 1

-----------------------------------------------------------------------------
(* The rows the flights handlers compute from (checked under SpecFlights) *)

\* the frame of the selected flights, in the order and with the labels of the
\* dataset
SelectedFrame ==
    LET rows == SortedInts(SelectedFlights)
    IN  [flights_df EXCEPT !.index = [i \in 1..Len(rows) |-> flights_df.index[rows[i]]],
                           !.data = [i \in 1..Len(rows) |-> flights_df.data[rows[i]]]]

\* C25: when the handler of a flights dashboard returns, the number of flights
\* it shows is the number of the flights of the chosen airline (all without a
\* choice) from the start to the end of the period, both days included (no
\* limit where none is given), and every figure and KPI is what the handler
\* computes, without filter, from exactly these flights
C25_FilteredRows ==
    FlightsRan /\ flights_error = "" =>
        /\ flights_out.kpis.total = Cardinality(SelectedFlights)
        /\ \E res \in (IF flights_app = "dashboard"
                       THEN dashboard_update(SelectedFrame, <<>>, <<>>, <<>>)
                       ELSE update(flights_app, SelectedFrame, <<>>, <<>>, <<>>)) :
              res.raised = "" /\ flights_out = res.out

\* an airline is chosen and the period starts on the day of a flight of that
\* airline, which is kept, while other flights are left out by each filter
C25_Witness ==
    /\ FlightsRan /\ flights_error = ""
    /\ airline_filter # <<>> /\ date_range[1] # <<>> /\ date_range[2] # <<>>
    /\ \E r \in SelectedFlights : FDate(r).n = date_range[1][1] /\ FDate(r).n = date_range[2][1]
    /\ \E r \in 1..Len(flights_df.data) : FAirline(r) = Str(airline_filter[1]) /\ r \notin SelectedFlights
    /\ \E r \in 1..Len(flights_df.data) : FAirline(r) # Str(airline_filter[1]) /\ FDate(r).n = date_range[1][1]

-----------------------------------------------------------------------------
(* The two versions of the WHO dashboard (checked under SpecWHO) *)

\* the profiles of the two versions for the selected country and year
ProfileOfAppWHO == update_country_profile("appWHO", who_df, country_dropdown, year_dropdown)
ProfileOfWhoAppWho == update_country_profile("who.app_who", who_df, country_dropdown, year_dropdown)

\* C26: for the selected country and year the two versions give the same
\* 'No data available.' placeholder or profiles with the same title and the
\* same entries (the data table is one and the same computation in both)
C26_VersionsAgree ==
    who_app # "" =>
        /\ ProfileOfAppWHO.kind \in {"nodata", "profile"}
        /\ ProfileOfWhoAppWho.kind = ProfileOfAppWHO.kind
        /\ ProfileOfWhoAppWho.title = ProfileOfAppWHO.title
        /\ ProfileOfWhoAppWho.lines = ProfileOfAppWHO.lines

-----------------------------------------------------------------------------
(* The countries shown without a selection (checked under SpecFood) *)

\* S is made of the n countries with the largest totals among the groups G,
\* or of all of them when they are no more than n
IsTop(S, G, n) ==
    /\ S \subseteq {g.key : g \in G}
    /\ Cardinality(S) = IF Cardinality(G) < n THEN Cardinality(G) ELSE n
    /\ \A g, h \in G : g.key \in S /\ h.key \notin S => g.num >= h.num

\* the countries of the lines and of the pies that are drawn
LineCountries == {figure["ts-top-areas"].traces[i].Country : i \in 1..Len(figure["ts-top-areas"].traces)}
PieCountries == {PieOf(i).name : i \in 1..Len(figure["pie-area"].traces)}

\* the totals per country of the rows left by the filters of the time series,
\* of the pie, and of the whole long table
SeriesGroups == FoodGroups(LCountry, LAMBDA r : InYears(r) /\ InProducts(r))
PieGroups == FoodGroups(LCountry, InYears)
AllGroups == FoodGroups(LCountry, LAMBDA r : TRUE)

\* the page is loaded and no chart callback has run
FoodLayoutValues ==
    load_pc = "serving" /\ pending = ChartOutputs /\ \A o \in ChartOutputs : figure[o].kind = "none"

\* C27: without selected countries the time series has the lines of the 5
\* countries with the largest totals in the rows left by the year and product
\* filters, and the pie chart is laid out for the 6 countries with the largest
\* totals in the rows left by the year filter, of which those with a positive
\* product have a pie (all countries when there are no more); with selected
\* countries these take their place; the layout starts with the 5 largest of
\* the whole long table selected
C27_DefaultCountries ==
    /\ Rendered("ts-top-areas") /\ figure["ts-top-areas"].kind = "line" =>
          IF validated_filters.countries = <<>>
          THEN IsTop(LineCountries, SeriesGroups, 5)
          ELSE LineCountries = {g.key : g \in SeriesGroups} \cap Range(validated_filters.countries)
    /\ PieDrawn =>
          \E S \in (IF validated_filters.countries = <<>>
                    THEN LET groups == PieGroups
                             without == {g.key : g \in {h \in groups : PiePositive(h.key) = {}}}
                         IN  {T \in {PieCountries \cup Z : Z \in SUBSET without} :
                                 IsTop(T, groups, 6)}
                    ELSE {Range(validated_filters.countries)}) :
              /\ PieCountries = {c \in S : PiePositive(c) # {}}
              /\ Len(figure["pie-area"].traces) = Cardinality(PieCountries)
              /\ figure["pie-area"].grid[1] * figure["pie-area"].grid[2] >= Cardinality(S)
              /\ (figure["pie-area"].grid[1] - 1) * figure["pie-area"].grid[2] < Cardinality(S)
    /\ FoodLayoutValues =>
          /\ IsTop(Range(validated_filters.countries), AllGroups, 5)
          /\ Len(validated_filters.countries) = Cardinality(Range(validated_filters.countries))

\* no country is selected and the charts leave out countries: 5 lines and 6
\* pies of more countries with unequal totals
C27_Witness ==
    /\ validated_filters.countries = <<>>
    /\ Rendered("ts-top-areas") /\ figure["ts-top-areas"].kind = "line"
    /\ PieDrawn
    /\ Cardinality(LineCountries) = 5 /\ Cardinality(PieCountries) = 6
    /\ \E g, h \in PieGroups : g.key \in PieCountries /\ h.key \notin PieCountries /\ g.num > h.num
    /\ \E g \in SeriesGroups : g.key \in PieCountries /\ g.key \notin LineCountries

-----------------------------------------------------------------------------
(* The grid of the pie chart (checked under SpecPieGrid) *)

\* the number of countries update_pie lays out: the selected ones, or the 6
\* largest of the rows left by the year filter
Displayed ==
    IF validated_filters.countries # <<>> THEN Len(validated_filters.countries)
    ELSE IF Cardinality(PieGroups) < 6 THEN Cardinality(PieGroups) ELSE 6

PieGrid == figure["pie-area"].grid

\* C28: a pie chart of n >= 1 countries has min(3, n) >= 1 columns and
\* ceiling(n / columns) rows, which make room for n pies; the places
\* (i div columns, i mod columns) of i in 0..n-1 are inside the grid and no
\* two are the same, and each pie drawn is at the place of its country; with
\* no country the placeholder is returned and no grid is computed
C28_PieGrid ==
    Rendered("pie-area") =>
        LET n == Displayed
            rows == PieGrid[1]
            cols == PieGrid[2]
        IN  IF n = 0
            THEN /\ figure["pie-area"].kind = "empty"
                 /\ PieGrid = <<>>
            ELSE /\ figure["pie-area"].kind = "pie"
                 /\ cols >= 1
                 /\ cols = (IF n < 3 THEN n ELSE 3)
                 /\ (rows - 1) * cols < n
                 /\ rows * cols >= n
                 /\ \A i \in 0..(n - 1) :
                       /\ PieRow(i, cols) = i \div cols /\ PieCol(i, cols) = i % cols
                       /\ PieRow(i, cols) < rows /\ PieCol(i, cols) < cols
                       /\ \A j \in 0..(n - 1) :
                             i # j => <<PieRow(i, cols), PieCol(i, cols)>>
                                        # <<PieRow(j, cols), PieCol(j, cols)>>
                 /\ \A k \in 1..Len(figure["pie-area"].traces) :
                       /\ PieOf(k).row \in 0..(rows - 1)
                       /\ PieOf(k).col \in 0..(cols - 1)
                       /\ \A m \in 1..Len(figure["pie-area"].traces) :
                             k # m => <<PieOf(k).row, PieOf(k).col>> # <<PieOf(m).row, PieOf(m).col>>
                       /\ validated_filters.countries # <<>> =>
                             \E i \in 0..(n - 1) :
                                /\ validated_filters.countries[i + 1] = PieOf(k).name
                                /\ PieOf(k).row = i \div cols /\ PieOf(k).col = i % cols

\* seven selected countries have their pies on three rows, the last row with
\* one pie
C28_Witness ==
    /\ PieDrawn
    /\ Len(validated_filters.countries) = 7
    /\ Len(figure["pie-area"].traces) = 7
    /\ PieGrid = <<3, 3>>
    /\ PieOf(7).row = 2 /\ PieOf(7).col = 0

-----------------------------------------------------------------------------
(* Loading through the cache (checked under SpecCache) *)

\* what the run that reads FAO.csv returns
FirstReturned ==
    LET res == load_prepare_data(NoFile, csv_file, TRUE)
    IN  <<res[1], res[2]>>

-----------------------------------------------------------------------------
(* The days of the flights (checked under SpecDays) *)

DayPos(name) == CHOOSE i \in 1..Len(DAY_ORDER_EN) : DAY_ORDER_EN[i] = name
IsDay(c) == c.k = "str" /\ c.s \in Range(DAY_ORDER_EN)
DRows == 1..Len(flights_df.data)

\* the labels of the day chart are days, in the order of the week
DayChartInWeekOrder ==
    FlightsRan /\ flights_error = "" /\ flights_out.day_delay.kind = "bar" =>
        LET labels == flights_out.day_delay.labels
        IN  /\ \A i \in 1..Len(labels) : labels[i] \in Range(DAY_ORDER_EN)
            /\ \A i \in 1..(Len(labels) - 1) : DayPos(labels[i]) < DayPos(labels[i + 1])

\* C30: the table the callbacks work on is preprocessed: preprocessing it
\* again changes nothing; every DAY_NAME is one of the seven English names or
\* missing; a French name in DAY_OF_WEEK (blanks around it aside) has given
\* its English name, and a value that names no day has given a missing one;
\* the labels of the day chart are in the order Monday to Sunday whatever the
\* order of the rows
C30_Preprocess ==
    flights_app \in {"flights.dashboard", "app_flights"} =>
        /\ preprocess(flights_df) = flights_df
        /\ HasCol(flights_df, DAY_NAME) =>
              \A r \in DRows : isna(Cell(flights_df, r, DAY_NAME)) \/ IsDay(Cell(flights_df, r, DAY_NAME))
        /\ HasCol(flights_df, DAY_OF_WEEK) =>
              \A r \in DRows :
                 LET x == Cell(flights_df, r, DAY_OF_WEEK)
                     key == strip(astype_str(x))
                 IN  IF key \in DOMAIN DAY_FR_TO_EN
                     THEN Cell(flights_df, r, DAY_NAME) = Str(DAY_FR_TO_EN[key])
                     ELSE IsDay(x) \/ isna(Cell(flights_df, r, DAY_NAME))
        /\ DayChartInWeekOrder
====
